---- MODULE Spec2Model ----
(***************************************************************************)
(* A model of the session event-processing and input-delivery subsystem:  *)
(* the in-memory session registry and its event state machine, the        *)
(* delayed eviction timers, the session resolver, and the delivery of     *)
(* replies to a session through the wrapper (HTTP) or the drop-box.       *)
(***************************************************************************)
EXTENDS Integers, Sequences, FiniteSets, TLC

VARIABLES
    sessions,   \* the registry: a Map, kept as the sequence of its values in insertion order
    timers,     \* pending setTimeout callbacks of SessionEnd: records [id, due, live]
    now,        \* Date.now()
    nEvents,    \* number of registry calls made so far (bounds the exploration)
    last,       \* the call that produced this state: its arguments, the session before, the return value
    lookup,     \* the resolver query made on this registry state, and its result
    portFile,   \* ~/.claude/party-wrapper.port: None when absent, else Some([port, pid])
    wrapper,    \* per external session: the wrapper process around it, [running, port]
    dropbox,    \* ~/.claude/party-inputs: session id -> None or Some(file), the file <id>.input with its bytes and mtime
    stdin,      \* per external session: the texts written to its stdin since the last send call began, each with the id it was sent to
    call,       \* the sendInputToSession call in flight, or the last one with its result
    nSends,     \* number of sendInputToSession calls made so far (bounds the exploration)
    tries,      \* the HTTP attempts of the sendInputToSession call, in order: the delay before each, its result, the liveness probe after it
    fsop,       \* the last readPendingInput or cleanupOldInputs call on the drop-box, with the drop-box before it
    listener,   \* the ingestion server's listener: the persisted port setting, the port being bound, its state
    chat,       \* the last inbound chat message handled: the channel, the message, what the handler did
    hooks       \* the webhook requests of the ingestion server in flight, the microtask queue, and what the handlers did

regVars == <<sessions, timers, now, nEvents, last, lookup>>
sendVars == <<portFile, wrapper, dropbox, stdin, call, nSends, fsop, tries>>
srvVars == <<listener, chat, hooks>>
vars == <<sessions, timers, now, nEvents, last, lookup, portFile, wrapper, dropbox, stdin, call, nSends, fsop, tries, listener, chat, hooks>>

----------------------------------------------------------------------------
(* Bounds of the exploration *)

MaxEvents == 3
MaxTicks == 3
MaxSends == 2
MaxElapse == 3
MaxRequests == 2

(* Program constants *)

GRACE_MS == 30000
DEFAULT_PORT == 31550
MAX_RETRIES == 3
DEFAULT_HOOK_PORT == 31548
BASE_PORT == 31548
PORT_ATTEMPTS == 10

\* The granularity of the modelled clock: half of the grace delay
TickMs == GRACE_MS \div 2

----------------------------------------------------------------------------
(* Values *)

\* JavaScript's undefined, for the optional string fields
undefined == "undefined"

\* An optional structured value: <<>> is undefined, <<v>> is v
None == <<>>
Some(v) == <<v>>

\* Session ids are strings, kept as sequences of characters so that
\* String.prototype.startsWith can be computed
SessionIds == { <<"a", "b">>, <<"a", "b", "c">> }

HookTypes == {"SessionStart", "SessionEnd", "PreToolUse", "PostToolUse", "Notification", "Stop"}

\* a || b on strings: undefined and the empty string are falsy
Or(a, b) == IF a = undefined \/ a = "" THEN b ELSE a

\* a || b on optional arrays/objects: only undefined is falsy
OrOpt(a, b) == IF a = None THEN b ELSE a

\* The payload bag of an event with no field set
EmptyData ==
    [ working_directory |-> undefined, tool_name |-> undefined,
      message |-> undefined, title |-> undefined, body |-> undefined, text |-> undefined,
      question |-> undefined, prompt |-> undefined,
      options |-> None, choices |-> None, answers |-> None,
      reason |-> undefined ]

\* Raw option entries as they arrive in a payload
StrOpt(s) == [kind |-> "string", str |-> s]
ObjOpt(l, t, n, v, d) == [kind |-> "object", label |-> l, text |-> t, name |-> n, value |-> v, description |-> d]
OtherOpt(s) == [kind |-> "other", str |-> s]

\* The payloads sent with each hook type
PayloadsFor(type) ==
    CASE type = "SessionStart" ->
            { EmptyData, [EmptyData EXCEPT !.working_directory = "/tmp/proj"] }
      [] type = "SessionEnd" -> { EmptyData }
      [] type = "PreToolUse" ->
            { [EmptyData EXCEPT !.tool_name = "Bash", !.working_directory = "/tmp/proj"] }
      [] type = "PostToolUse" -> { EmptyData }
      [] type = "Notification" ->
            { [EmptyData EXCEPT !.message = "need input"],
              [EmptyData EXCEPT !.title = "Title", !.prompt = "Proceed?",
                                !.choices = Some([isArray |-> TRUE,
                                                  items |-> << StrOpt("yes"),
                                                               ObjOpt(undefined, "No", undefined, undefined, undefined),
                                                               ObjOpt(undefined, undefined, undefined, undefined, "d"),
                                                               OtherOpt("3") >>])] }
      [] type = "Stop" -> { [EmptyData EXCEPT !.reason = "Task completed"] }

Events ==
    UNION { { [type |-> ty, sessionId |-> id, data |-> d] : id \in SessionIds, d \in PayloadsFor(ty) }
            : ty \in HookTypes }

----------------------------------------------------------------------------
(* The registry: a Map<string, ClaudeSession> in insertion order *)

Min(S) == CHOOSE x \in S : \A y \in S : x <= y

IndexOf(reg, id) ==
    IF \E i \in 1..Len(reg) : reg[i].id = id
    THEN CHOOSE i \in 1..Len(reg) : reg[i].id = id
    ELSE 0

MapHas(reg, id) == IndexOf(reg, id) # 0

\* Map.get: None when the key is absent
MapGet(reg, id) == IF MapHas(reg, id) THEN Some(reg[IndexOf(reg, id)]) ELSE None

\* Mutant: every set adds an entry
MapSet_Append(reg, id, s) == Append(reg, s)

\* Map.set: an existing key keeps its position, a new key is appended
MapSet(reg, id, s) ==
    IF MapHas(reg, id)
    THEN [reg EXCEPT ![IndexOf(reg, id)] = s]
    ELSE Append(reg, s)

\* Map.delete
MapDelete(reg, id) == SelectSeq(reg, LAMBDA s : s.id # id)

getSessions(reg) == reg

getSession(reg, id) == MapGet(reg, id)

----------------------------------------------------------------------------
(* createSession, updateSession, removeSession *)

\* Mutant: a new session starts with lastActivity unset
NewSession_ZeroActivity(sessionId, workingDirectory, t) ==
    [ id |-> sessionId,
      workingDirectory |-> workingDirectory,
      startTime |-> t,
      status |-> "active",
      lastActivity |-> 0,
      currentTool |-> undefined,
      lastNotification |-> undefined,
      question |-> undefined,
      options |-> None ]

NewSession(sessionId, workingDirectory, t) ==
    [ id |-> sessionId,
      workingDirectory |-> workingDirectory,
      startTime |-> t,
      status |-> "active",
      lastActivity |-> t,
      currentTool |-> undefined,
      lastNotification |-> undefined,
      question |-> undefined,
      options |-> None ]

\* Mutant: the new session replaces the registry instead of joining it
createSession_Fresh(reg, sessionId, workingDirectory, t) ==
    << NewSession(sessionId, workingDirectory, t) >>

\* Mutant: a session that is started again keeps the fields of the old one
createSession_KeepOld(reg, sessionId, workingDirectory, t) ==
    IF MapHas(reg, sessionId)
    THEN MapSet(reg, sessionId,
                [reg[IndexOf(reg, sessionId)] EXCEPT !.status = "active",
                                                     !.workingDirectory = workingDirectory,
                                                     !.startTime = t, !.lastActivity = t])
    ELSE MapSet(reg, sessionId, NewSession(sessionId, workingDirectory, t))

\* sessions.set(sessionId, session): returns the registry; the session returned is NewSession
createSession(reg, sessionId, workingDirectory, t) ==
    MapSet(reg, sessionId, NewSession(sessionId, workingDirectory, t))

\* { ...session, ...updates, lastActivity: Date.now() }
Spread(session, updates, t) ==
    [ f \in DOMAIN session |->
        IF f = "lastActivity" THEN t
        ELSE IF f \in DOMAIN updates THEN updates[f]
        ELSE session[f] ]

\* Mutant: a session that is absent is created by the update
updateSession_Upsert(reg, sessionId, updates, t) ==
    IF MapHas(reg, sessionId)
    THEN MapSet(reg, sessionId, Spread(reg[IndexOf(reg, sessionId)], updates, t))
    ELSE MapSet(reg, sessionId, Spread(NewSession(sessionId, "Unknown", t), updates, t))

\* The registry after updateSession; unchanged when the session is absent
updateSession(reg, sessionId, updates, t) ==
    IF MapHas(reg, sessionId)
    THEN MapSet(reg, sessionId, Spread(reg[IndexOf(reg, sessionId)], updates, t))
    ELSE reg

removeSession(reg, sessionId) == MapDelete(reg, sessionId)

ClearWaitingUpdates ==
    [ status |-> "active", question |-> undefined, options |-> None, lastNotification |-> undefined ]

\* Mutant: an unknown session is not created
ensureSession_Skip(reg, sessionId, t) == reg

ensureSession(reg, sessionId, t) ==
    IF MapHas(reg, sessionId) THEN reg ELSE createSession(reg, sessionId, "Unknown", t)

----------------------------------------------------------------------------
(* parseOptions *)

\* String(index + 1)
Ordinal(i) == CASE i = 1 -> "1" [] i = 2 -> "2" [] i = 3 -> "3" [] i = 4 -> "4" [] OTHER -> "n"

ParseOption(opt, i) ==
    CASE opt.kind = "string" ->
            [label |-> opt.str, value |-> opt.str, description |-> undefined]
      [] opt.kind = "object" ->
            [label |-> Or(opt.label, Or(opt.text, Or(opt.name, Ordinal(i)))),
             value |-> Or(opt.value, Or(opt.label, Or(opt.text, Ordinal(i)))),
             description |-> opt.description]
      [] OTHER ->
            [label |-> opt.str, value |-> opt.str, description |-> undefined]

parseOptions(data) ==
    LET rawOptions == OrOpt(data.options, OrOpt(data.choices, data.answers))
    IN IF rawOptions # None /\ rawOptions[1].isArray
       THEN Some([i \in 1..Len(rawOptions[1].items) |-> ParseOption(rawOptions[1].items[i], i)])
       ELSE None

----------------------------------------------------------------------------
(* processHookEvent *)

Truthy(x) == x # undefined /\ x # ""

\* Mutant: the working directory follows every payload that carries one
Backfill_Always(reg, sessionId, data) ==
    IF MapHas(reg, sessionId) /\ Truthy(data.working_directory)
    THEN [reg EXCEPT ![IndexOf(reg, sessionId)].workingDirectory = data.working_directory]
    ELSE reg

\* The opportunistic backfill of workingDirectory at the head of processHookEvent
Backfill(reg, sessionId, data) ==
    IF MapHas(reg, sessionId)
       /\ reg[IndexOf(reg, sessionId)].workingDirectory = "Unknown"
       /\ Truthy(data.working_directory)
    THEN [reg EXCEPT ![IndexOf(reg, sessionId)].workingDirectory = data.working_directory]
    ELSE reg

\* Mutant: PreToolUse leaves the pending prompt in place
PreToolUseUpdates_KeepPrompt(data) ==
    [ status |-> "active", currentTool |-> data.tool_name ]

PreToolUseUpdates(data) ==
    [ status |-> "active", currentTool |-> data.tool_name,
      question |-> undefined, options |-> None, lastNotification |-> undefined ]

\* Mutant: the end of a tool leaves the pending prompt
PostToolUseUpdates_KeepPrompt == [ status |-> "active", currentTool |-> undefined ]

PostToolUseUpdates ==
    [ status |-> "active", currentTool |-> undefined,
      question |-> undefined, options |-> None, lastNotification |-> undefined ]

\* Mutant: the notification text is not kept
NotificationUpdates_NoMessage(data) ==
    [ status |-> "waiting", lastNotification |-> undefined,
      question |-> Or(data.question, data.prompt), options |-> parseOptions(data) ]

NotificationUpdates(data) ==
    LET notificationMsg == Or(data.message, Or(data.title, Or(data.body, Or(data.text, "Waiting for input..."))))
        question == Or(data.question, Or(data.prompt, notificationMsg))
    IN [ status |-> "waiting", lastNotification |-> notificationMsg,
         question |-> question, options |-> parseOptions(data) ]

\* Mutant: Stop leaves the tool in flight
StopUpdates_KeepTool == [ status |-> "stopped" ]

StopUpdates == [ status |-> "stopped", currentTool |-> undefined ]

SessionEndUpdates == [ status |-> "stopped" ]

\* Mutant: the removal is scheduled with no grace delay
SessionEndTimers_NoGrace(sessionId, t, live) == { [id |-> sessionId, due |-> t, live |-> live] }

\* setTimeout(() => removeSession(sessionId), 30000) in the SessionEnd case.
\* The callback holds the session id only; live notes whether a session with
\* that id was in the registry when the timer was set (history, read by no action).
SessionEndTimers(sessionId, t, live) == { [id |-> sessionId, due |-> t + GRACE_MS, live |-> live] }

\* The Stop case sets no timer
StopTimers(sessionId, t, live) == {}

\* The registry after the event, the timers it schedules and the value returned
processHookEvent(reg, event, t) ==
    LET r0 == Backfill(reg, event.sessionId, event.data)
        id == event.sessionId
        Updated(updates) ==
            LET r1 == updateSession(r0, id, updates, t)
            IN [reg |-> r1, scheduled |-> {}, ret |-> getSession(r1, id)]
    IN CASE event.type = "SessionStart" ->
              LET r1 == createSession(r0, id, Or(event.data.working_directory, "Unknown"), t)
              IN [reg |-> r1, scheduled |-> {}, ret |-> getSession(r1, id)]
         [] event.type = "SessionEnd" ->
              LET r1 == updateSession(r0, id, SessionEndUpdates, t)
              IN [reg |-> r1, scheduled |-> SessionEndTimers(id, t, MapHas(r0, id)), ret |-> getSession(r1, id)]
         [] event.type = "PreToolUse" -> Updated(PreToolUseUpdates(event.data))
         [] event.type = "PostToolUse" -> Updated(PostToolUseUpdates)
         [] event.type = "Notification" -> Updated(NotificationUpdates(event.data))
         [] event.type = "Stop" ->
              LET r1 == updateSession(r0, id, StopUpdates, t)
              IN [reg |-> r1, scheduled |-> StopTimers(id, t, MapHas(r0, id)), ret |-> getSession(r1, id)]
         [] OTHER -> [reg |-> r0, scheduled |-> {}, ret |-> getSession(r0, id)]

\* handleHookEvent: ensureSession, then processHookEvent
handleHookEvent(reg, event, t) == processHookEvent(ensureSession(reg, event.sessionId, t), event, t)

----------------------------------------------------------------------------
(* The session resolver *)

\* s.startsWith(p)
StartsWith(str, p) == Len(p) <= Len(str) /\ SubSeq(str, 1, Len(p)) = p

SessionMatch(id, session) == [id |-> id, session |-> session]

\* The SessionLookupResult; ambiguous and error are FALSE and undefined when not set
LookupResult(found, session, ambiguous, matches, error) ==
    [ found |-> found, session |-> session, ambiguous |-> ambiguous,
      matches |-> matches, error |-> error ]

\* Mutant: several prefix matches resolve to the first of them
findSessionById_FirstMatch(reg, idPrefix) ==
    LET exactSession == getSession(reg, idPrefix)
        matches == SelectSeq(getSessions(reg), LAMBDA s : StartsWith(s.id, idPrefix))
    IN IF exactSession # None
       THEN LookupResult(TRUE, Some(SessionMatch(idPrefix, exactSession[1])), FALSE, None, undefined)
       ELSE IF Len(matches) >= 1
       THEN LookupResult(TRUE, Some(SessionMatch(matches[1].id, matches[1])), FALSE, None, undefined)
       ELSE LookupResult(FALSE, None, FALSE, None, "No session found matching")

\* Mutant: no exact match is tried, only the prefix match
findSessionById_NoExact(reg, idPrefix) ==
    LET matches == SelectSeq(getSessions(reg), LAMBDA s : StartsWith(s.id, idPrefix))
    IN IF Len(matches) = 1
       THEN LookupResult(TRUE, Some(SessionMatch(matches[1].id, matches[1])), FALSE, None, undefined)
       ELSE IF Len(matches) > 1
       THEN LookupResult(FALSE, None, TRUE, Some(matches), "Multiple sessions match")
       ELSE LookupResult(FALSE, None, FALSE, None, "No session found matching")

findSessionById(reg, idPrefix) ==
    LET exactSession == getSession(reg, idPrefix)
        matches == SelectSeq(getSessions(reg), LAMBDA s : StartsWith(s.id, idPrefix))
    IN IF exactSession # None
       THEN LookupResult(TRUE, Some(SessionMatch(idPrefix, exactSession[1])), FALSE, None, undefined)
       ELSE IF Len(matches) = 1
       THEN LookupResult(TRUE, Some(SessionMatch(matches[1].id, matches[1])), FALSE, None, undefined)
       ELSE IF Len(matches) > 1
       THEN LookupResult(FALSE, None, TRUE, Some(matches), "Multiple sessions match")
       ELSE LookupResult(FALSE, None, FALSE, None, "No session found matching")

\* sessions.find(pred) over the sessions that satisfy pred, kept in registry
\* order: the first of them, or nothing
FirstOf(hits) ==
    IF hits = <<>> THEN None ELSE Some(hits[1])

\* Mutant: the sort is left out, the first session in registry order is taken
MostRecent_Unsorted(reg) == FirstOf(reg)

\* filter(active).sort((a, b) => b.lastActivity - a.lastActivity)[0]: the sort
\* is stable, so among the most recent the first in registry order comes first
MostRecent(reg) ==
    LET top(s) == \A i \in 1..Len(reg) : reg[i].lastActivity <= s.lastActivity
    IN FirstOf(SelectSeq(reg, top))

\* Mutant: the most recent session that is not stopped, waiting or not
findTargetSession_MostRecent(reg) ==
    LET live == MostRecent(SelectSeq(getSessions(reg), LAMBDA s : s.status # "stopped"))
    IN IF live # None THEN Some(SessionMatch(live[1].id, live[1])) ELSE None

\* Mutant: among the waiting sessions the one notified last is taken
findTargetSession_LatestWaiting(reg) ==
    LET waitingSession == MostRecent(SelectSeq(getSessions(reg), LAMBDA s : s.status = "waiting"))
        activeSession == MostRecent(SelectSeq(getSessions(reg), LAMBDA s : s.status = "active"))
    IN IF waitingSession # None
       THEN Some(SessionMatch(waitingSession[1].id, waitingSession[1]))
       ELSE IF activeSession # None
       THEN Some(SessionMatch(activeSession[1].id, activeSession[1]))
       ELSE None

\* findTargetSession: the first waiting session in registry order, else the
\* most recent active one
findTargetSession(reg) ==
    LET waitingSession == FirstOf(SelectSeq(getSessions(reg), LAMBDA s : s.status = "waiting"))
        activeSession == MostRecent(SelectSeq(getSessions(reg), LAMBDA s : s.status = "active"))
    IN IF waitingSession # None
       THEN Some(SessionMatch(waitingSession[1].id, waitingSession[1]))
       ELSE IF activeSession # None
       THEN Some(SessionMatch(activeSession[1].id, activeSession[1]))
       ELSE None

----------------------------------------------------------------------------
(* The input delivery channel: the wrapper handle and sendInputToSession *)

\* The reply texts, as JavaScript strings: sequences of UTF-16 code units.
\* "yes", and a text with a two-byte character and a surrogate pair.
Texts == { <<121, 101, 115>>, <<233, 55357, 56832>> }

IsHigh(u) == 55296 <= u /\ u <= 56319
IsLow(u) == 56320 <= u /\ u <= 57343

\* The UTF-8 bytes of one code point
Utf8Bytes(cp) ==
    IF cp < 128 THEN << cp >>
    ELSE IF cp < 2048 THEN << 192 + (cp \div 64), 128 + (cp % 64) >>
    ELSE IF cp < 65536 THEN << 224 + (cp \div 4096), 128 + ((cp \div 64) % 64), 128 + (cp % 64) >>
    ELSE << 240 + (cp \div 262144), 128 + ((cp \div 4096) % 64), 128 + ((cp \div 64) % 64), 128 + (cp % 64) >>

RECURSIVE Utf8Encode(_)
\* Mutant: one byte per code unit
Utf8Encode_Latin1(str) == [i \in 1..Len(str) |-> str[i] % 256]

\* The bytes fs.writeFileSync(file, string) writes: UTF-8, a surrogate pair as
\* one four-byte sequence, a lone surrogate as U+FFFD
Utf8Encode(str) ==
    IF str = <<>> THEN <<>>
    ELSE IF IsHigh(str[1]) /\ Len(str) >= 2 /\ IsLow(str[2])
    THEN Utf8Bytes(65536 + (str[1] - 55296) * 1024 + (str[2] - 56320)) \o Utf8Encode(SubSeq(str, 3, Len(str)))
    ELSE IF IsHigh(str[1]) \/ IsLow(str[1])
    THEN Utf8Bytes(65533) \o Utf8Encode(Tail(str))
    ELSE Utf8Bytes(str[1]) \o Utf8Encode(Tail(str))

IsCont(bytes, i) == i <= Len(bytes) /\ 128 <= bytes[i] /\ bytes[i] < 192

\* The code units of one code point
CodeUnits(cp) ==
    IF cp < 65536 THEN << cp >>
    ELSE << 55296 + ((cp - 65536) \div 1024), 56320 + ((cp - 65536) % 1024) >>

RECURSIVE Utf8Decode(_)
\* The string fs.readFileSync(file, 'utf-8') returns: a byte that starts no
\* well-formed sequence becomes U+FFFD
Utf8Decode(bytes) ==
    IF bytes = <<>> THEN <<>>
    ELSE LET b == bytes[1]
             Rest(n) == Utf8Decode(SubSeq(bytes, n + 1, Len(bytes)))
         IN IF b < 128 THEN << b >> \o Rest(1)
            ELSE IF 192 <= b /\ b < 224 /\ IsCont(bytes, 2)
            THEN CodeUnits((b - 192) * 64 + (bytes[2] - 128)) \o Rest(2)
            ELSE IF 224 <= b /\ b < 240 /\ IsCont(bytes, 2) /\ IsCont(bytes, 3)
            THEN CodeUnits((b - 224) * 4096 + (bytes[2] - 128) * 64 + (bytes[3] - 128)) \o Rest(3)
            ELSE IF 240 <= b /\ b < 248 /\ IsCont(bytes, 2) /\ IsCont(bytes, 3) /\ IsCont(bytes, 4)
            THEN CodeUnits((b - 240) * 262144 + (bytes[2] - 128) * 4096 + (bytes[3] - 128) * 64 + (bytes[4] - 128)) \o Rest(4)
            ELSE << 65533 >> \o Rest(1)

\* The pid of the wrapper process around a session: the process is named by the
\* session it wraps
PidOf(id) == id

\* findAvailablePort(DEFAULT_PORT): the first port from DEFAULT_PORT on that no
\* running wrapper listens on
FreePort(w) ==
    Min({ p \in DEFAULT_PORT..(DEFAULT_PORT + Cardinality(SessionIds)) :
            \A id \in SessionIds : ~(w[id].running /\ w[id].port = p) })

\* process.kill(pid, 0) succeeds
Alive(w, pid) == \E id \in SessionIds : PidOf(id) = pid /\ w[id].running

\* Mutant: the handle of a dead process is left in place
getWrapperPort_KeepStale(pf, w) ==
    IF pf = None THEN [port |-> 0, file |-> pf]
    ELSE IF Alive(w, pf[1].pid) THEN [port |-> pf[1].port, file |-> pf]
    ELSE [port |-> 0, file |-> pf]

\* Mutant: no handle is ever reported live
getWrapperPort_NeverLive(pf, w) == [port |-> 0, file |-> pf]

\* getWrapperPort: the port in the handle file when its pid is alive; a handle
\* whose process is gone is deleted. port = 0 stands for null.
getWrapperPort(pf, w) ==
    IF pf = None THEN [port |-> 0, file |-> pf]
    ELSE IF Alive(w, pf[1].pid) THEN [port |-> pf[1].port, file |-> pf]
    ELSE [port |-> 0, file |-> None]

\* The sessions whose wrapper listens on the port (one at most)
ListeningOn(w, port) == { id \in SessionIds : w[id].running /\ w[id].port = port }

\* The outcomes of one sendInputViaHttpOnce: a 200 answer after the wrapper
\* wrote the text to stdin; the text written but the answer lost, late or not
\* 200; nothing written (refused, 503, timeout)
HttpOutcomes == { "ok", "written-no-answer", "failed" }

\* The delays table of sendInputViaHttp
Delays == << 0, 1000, 2000, 4000 >>

\* The string a write found pending in the file it wrote (None: no file)
Replaced(box, sessionId) ==
    IF box[sessionId] # None THEN Some(box[sessionId][1].written) ELSE None

\* Mutant: the write is an exclusive create, a pending file keeps its bytes
WriteDropbox_KeepFirst(box, sessionId, input, t) ==
    [box EXCEPT ![sessionId] =
        Some([content |-> IF box[sessionId] # None THEN box[sessionId][1].content ELSE Utf8Encode(input),
              mtime |-> t, written |-> input, replaced |-> Replaced(box, sessionId)])]

\* fs.writeFileSync(<inputDir>/<sessionId>.input, input) at time t: the file
\* holds the UTF-8 bytes and the time of the write; written is the string
\* passed and replaced the string that was pending (history, read by no action)
WriteDropbox(box, sessionId, input, t) ==
    [box EXCEPT ![sessionId] = Some([content |-> Utf8Encode(input), mtime |-> t, written |-> input,
                                     replaced |-> Replaced(box, sessionId)])]

\* fs.existsSync(<inputDir>/<sessionId>.input)
hasPendingInput(box, sessionId) == box[sessionId] # None

\* readPendingInput: the file's text, and the file is deleted; null when there
\* is no file
readPendingInput(box, sessionId) ==
    IF hasPendingInput(box, sessionId)
    THEN [box |-> [box EXCEPT ![sessionId] = None], ret |-> Some(Utf8Decode(box[sessionId][1].content))]
    ELSE [box |-> box, ret |-> None]

\* const maxAge = 5 * 60 * 1000
maxAge == 5 * 60 * 1000

\* fs.readdirSync(inputDir): the files in directory order
DirOrder == << <<"a", "b">>, <<"a", "b", "c">> >>

\* Mutant: a file whose age equals maxAge is deleted too
cleanupOldInputs_Inclusive(box, t, failAt) ==
    [id \in DOMAIN box |-> IF box[id] # None /\ t - box[id][1].mtime >= maxAge THEN None ELSE box[id]]

\* cleanupOldInputs at time t: every file older than maxAge is deleted, in
\* directory order; failAt is the position of the file at which the file
\* system throws and the loop is left (0: it does not throw)
cleanupOldInputs(box, t, failAt) ==
    [id \in DOMAIN box |->
        IF /\ box[id] # None
           /\ t - box[id][1].mtime > maxAge
           /\ \E k \in 1..Len(DirOrder) : DirOrder[k] = id /\ (failAt = 0 \/ k < failAt)
        THEN None
        ELSE box[id]]

\* The position of a session's file in the directory listing
DirIndex(sessionId) == CHOOSE k \in 1..Len(DirOrder) : DirOrder[k] = sessionId

\* Mutant: what the file system throws leaves cleanupOldInputs
SweepOutcome_NoCatch(dirExists, failAt) ==
    [threw |-> dirExists /\ failAt # 0, logged |-> FALSE]

\* How cleanupOldInputs ends: without the directory it returns at once; what
\* the file system throws inside the try block is caught and logged
SweepOutcome(dirExists, failAt) ==
    [threw |-> FALSE, logged |-> dirExists /\ failAt # 0]

\* What getWrapperPort meets: no handle file, one whose process is gone, one
\* whose process runs
HandleState(pf, w) ==
    IF pf = None THEN "none" ELSE IF Alive(w, pf[1].pid) THEN "live" ELSE "stale"

\* A sendInputToSession call: pc is "http" while sendInputViaHttp is between
\* attempts, "done" once the call has returned result. handle is what the call
\* met when it began; file is what became of the drop-box write: "none" (not
\* tried), "written", "failed" (the file system threw)
Send(pc, sessionId, input, port, attempt, viaHttp, result, handle, file) ==
    [ pc |-> pc, sessionId |-> sessionId, input |-> input, port |-> port,
      attempt |-> attempt, viaHttp |-> viaHttp, result |-> result,
      handle |-> handle, file |-> file ]

NoSend == Send("idle", <<>>, <<>>, 0, 0, FALSE, FALSE, "none", "none")

\* The record of a call is kept while the call runs and in the state it
\* returns in
Settled(c) == IF c.pc = "http" THEN c ELSE NoSend

\* One pass of the loop of sendInputViaHttp: the delay awaited before the
\* attempt, whether sendInputViaHttpOnce resolved true, and what the
\* getWrapperPort after a failed attempt found ("none": no probe was made)
Try(delay, success, probe) == [delay |-> delay, success |-> success, probe |-> probe]

\* The attempts are kept with the record of the call
SettledTries(c, t) == IF c.pc = "http" THEN t ELSE <<>>

\* Mutant: the loop goes on whatever the probe found
RetryHttp_IgnoreProbe(currentPort, attempt) == attempt < MAX_RETRIES

\* The loop of sendInputViaHttp goes round again: the probe found a wrapper
\* and attempt + 1 <= maxRetries
RetryHttp(currentPort, attempt) == currentPort # 0 /\ attempt < MAX_RETRIES

\* A call on the drop-box by its reader or its sweeper: the drop-box before the
\* call, the time of the call, the value returned
FsOp(op, sessionId, fsOk, before, at, ret) ==
    [ op |-> op, sessionId |-> sessionId, fsOk |-> fsOk, before |-> before, at |-> at, ret |-> ret ]

NoFsOp == FsOp("none", <<>>, TRUE, <<>>, 0, None)

----------------------------------------------------------------------------
(* The registry's actions *)

NoId == <<>>

\* The record of a call: op is the operation that ran, ensured says whether
\* ensureSession created the session on the way, before is the session as
\* the registry held it when the call began, idsBefore the registry's keys then,
\* scheduled the timers the call set (for a firing timer: the timer itself),
\* http the webhook request that made the call: its method, the kind of its
\* body and the status answered (NoHttp when the call was not made by a request)
Ids(reg) == [i \in 1..Len(reg) |-> reg[i].id]

Http(method, body, status) == [method |-> method, body |-> body, status |-> status]

NoHttp == Http("none", "none", 0)

Call(op, ensured, id, type, data, reg, ret, scheduled, http) ==
    [ op |-> op, ensured |-> ensured, id |-> id, type |-> type, data |-> data,
      before |-> getSession(reg, id), idsBefore |-> Ids(reg),
      ret |-> ret, scheduled |-> scheduled, http |-> http ]

NoCall == Call("none", FALSE, NoId, "none", EmptyData, <<>>, None, {}, NoHttp)

\* The answers of the resolver on one registry state: findSessionById for
\* every query, and findTargetSession
Lookup(op, byId, target) == [op |-> op, byId |-> byId, target |-> target]

NoLookup == Lookup("none", <<>>, None)

InitRegistry ==
    /\ sessions = <<>>
    /\ timers = {}
    /\ now = 0
    /\ nEvents = 0
    /\ last = NoCall
    /\ lookup = NoLookup

InitSend ==
    /\ portFile = None
    /\ wrapper = [id \in SessionIds |-> [running |-> FALSE, port |-> 0]]
    /\ dropbox = [id \in SessionIds |-> None]
    /\ stdin = [id \in SessionIds |-> <<>>]
    /\ call = NoSend
    /\ nSends = 0
    /\ fsop = NoFsOp
    /\ tries = <<>>

\* The listener of the ingestion server: configured is settings.hookServerPort
\* as persisted, port the port of the startHookServer call in progress (0: none),
\* attempts the number of times the port was moved on since the application
\* called startHookServer (history, read by no action)
Listener(configured, port, state, attempts) ==
    [ configured |-> configured, port |-> port, state |-> state, attempts |-> attempts ]

InitListener == listener = Listener(DEFAULT_HOOK_PORT, 0, "stopped", 0)

\* An inbound chat message handled: sent is the session sendInputToSession was
\* called for (None when it was not called), reply the message sent back on the
\* channel ("none" when the handler returned without sending one)
Chat(channel, msg, sent, reply) == [channel |-> channel, msg |-> msg, sent |-> sent, reply |-> reply]

\* The text of a chat message: the command word after the channel's command
\* character ("" for free text), the word after it, and the rest
Msg(cmd, prefix, body) == [cmd |-> cmd, prefix |-> prefix, body |-> body]

NoChat == Chat("none", Msg("", <<>>, <<>>), None, "none")

InitChat == chat = NoChat

\* A webhook request in flight: pc is "receiving" while parseRequestBody waits
\* for the end of the body, "queued" once the body is complete and the rest of
\* the handler waits in the microtask queue, "fanout" while handleHookEvent
\* awaits a notification it sent, "answered" once the status is written.
\* fanout is what the switch of handleHookEvent did: "none", "desktop" (shown
\* without waiting) or "remote" (awaited); pending says that awaited sends are
\* under way; status is the status written (0 while there is none); req is the
\* request as it came in
Req(req, event, pc, fanout, pending, status) ==
    [ req |-> req, event |-> event, pc |-> pc, fanout |-> fanout, pending |-> pending, status |-> status ]

\* The requests in order of arrival; micro, the handlers waiting in the
\* microtask queue; received, the requests in the order their bodies were
\* complete; applied, the requests in the order handleHookEvent ran for them;
\* ui, the last call of notifyRenderer (received, applied and ui are history,
\* read by no action)
Hooks(reqs, micro, received, applied, ui) ==
    [ reqs |-> reqs, micro |-> micro, received |-> received, applied |-> applied, ui |-> ui ]

InitHooks == hooks = Hooks(<<>>, <<>>, <<>>, <<>>, None)

Init == InitRegistry /\ InitSend /\ InitListener /\ InitChat /\ InitHooks

\* An accepted webhook request: handleHookEvent(event)
HandleHookEvent(event) ==
    /\ nEvents < MaxEvents
    /\ LET r == handleHookEvent(sessions, event, now)
       IN /\ sessions' = r.reg
          /\ timers' = timers \cup r.scheduled
          /\ last' = Call("process", ~MapHas(sessions, event.sessionId), event.sessionId,
                          event.type, event.data, sessions, r.ret, r.scheduled, Http("POST", "object", 200))
    /\ nEvents' = nEvents + 1
    /\ lookup' = NoLookup
    /\ UNCHANGED now
    /\ UNCHANGED sendVars
    /\ UNCHANGED srvVars

\* A direct call of processHookEvent(event) for an id the registry does not
\* hold. (On an id it holds, the direct call and handleHookEvent are the same
\* step: ensureSession returns the session it finds.)
ProcessHookEvent(event) ==
    /\ nEvents < MaxEvents
    /\ ~MapHas(sessions, event.sessionId)
    /\ LET r == processHookEvent(sessions, event, now)
       IN /\ sessions' = r.reg
          /\ timers' = timers \cup r.scheduled
          /\ last' = Call("process", FALSE, event.sessionId, event.type, event.data,
                          sessions, r.ret, r.scheduled, NoHttp)
    /\ nEvents' = nEvents + 1
    /\ lookup' = NoLookup
    /\ UNCHANGED now
    /\ UNCHANGED sendVars
    /\ UNCHANGED srvVars

\* clearWaitingStatus(sessionId)
ClearWaitingStatus(id) ==
    /\ nEvents < MaxEvents
    /\ LET r1 == updateSession(sessions, id, ClearWaitingUpdates, now)
       IN /\ sessions' = r1
          /\ last' = Call("clearWaiting", FALSE, id, "none", EmptyData,
                          sessions, getSession(r1, id), {}, NoHttp)
    /\ nEvents' = nEvents + 1
    /\ lookup' = NoLookup
    /\ UNCHANGED <<timers, now>>
    /\ UNCHANGED sendVars
    /\ UNCHANGED srvVars

\* A removal timer set by SessionEnd fires: removeSession(sessionId)
TimerFire(t) ==
    /\ t \in timers
    /\ now >= t.due
    /\ sessions' = removeSession(sessions, t.id)
    /\ timers' = timers \ {t}
    /\ last' = Call("timer", FALSE, t.id, "none", EmptyData, sessions, None, {t}, NoHttp)
    /\ lookup' = NoLookup
    /\ UNCHANGED <<now, nEvents>>
    /\ UNCHANGED sendVars
    /\ UNCHANGED srvVars

\* Time passes; a timer that is due fires before the clock moves past it
Tick ==
    /\ now < MaxTicks * TickMs
    /\ \A t \in timers : now + TickMs <= t.due
    /\ now' = now + TickMs
    /\ last' = NoCall
    /\ lookup' = NoLookup
    /\ UNCHANGED <<sessions, timers, nEvents>>
    /\ UNCHANGED sendVars
    /\ UNCHANGED srvVars

Next ==
    \/ \E event \in Events : HandleHookEvent(event)
    \/ \E event \in Events : ProcessHookEvent(event)
    \/ \E id \in SessionIds : ClearWaitingStatus(id)
    \/ \E t \in timers : TimerFire(t)
    \/ Tick

Spec == Init /\ [][Next]_vars

----------------------------------------------------------------------------
(* The resolver's actions: queries on the registry the webhook events build *)

ResolverIds == SessionIds \cup { <<"b", "c">> }

ResolverEvents ==
    { [type |-> "SessionStart", sessionId |-> id, data |-> EmptyData] : id \in ResolverIds }
    \cup { [type |-> "Notification", sessionId |-> id, data |-> [EmptyData EXCEPT !.message = "need input"]]
           : id \in ResolverIds }
    \cup { [type |-> "Stop", sessionId |-> id, data |-> EmptyData] : id \in ResolverIds }

\* Every prefix of an id, and a string that is a prefix of none
Queries ==
    { SubSeq(id, 1, n) : id \in ResolverIds, n \in 0..2 } \cup ResolverIds \cup { <<"c">> }

\* The resolver is asked: findSessionById(q) for every query q, and findTargetSession()
Resolve ==
    /\ lookup' = Lookup("resolve",
                        [q \in Queries |-> findSessionById(sessions, q)],
                        findTargetSession(sessions))
    /\ UNCHANGED <<sessions, timers, now, nEvents, last>>
    /\ UNCHANGED sendVars
    /\ UNCHANGED srvVars

NextResolver ==
    \/ \E event \in ResolverEvents : HandleHookEvent(event)
    \/ Tick
    \/ Resolve

SpecResolver == Init /\ [][NextResolver]_vars

----------------------------------------------------------------------------
(* The working directory: events that carry one and events that do not *)

\* Every hook type with an empty payload and with a working directory; the
\* directory of a SessionStart differs from the one the later events carry
BackfillEvents ==
    { [type |-> ty, sessionId |-> id, data |-> d] :
        ty \in HookTypes, id \in SessionIds,
        d \in { EmptyData, [EmptyData EXCEPT !.working_directory = "/tmp/other"] } }
    \cup { [type |-> "SessionStart", sessionId |-> id,
            data |-> [EmptyData EXCEPT !.working_directory = "/tmp/proj"]] : id \in SessionIds }
    \cup { [type |-> "Notification", sessionId |-> id,
            data |-> [EmptyData EXCEPT !.prompt = "Proceed?",
                                       !.choices = Some([isArray |-> TRUE, items |-> << StrOpt("yes") >>])]]
           : id \in SessionIds }

NextBackfill ==
    \/ \E event \in BackfillEvents : HandleHookEvent(event)
    \/ \E event \in BackfillEvents : ProcessHookEvent(event)

SpecBackfill == Init /\ [][NextBackfill]_vars

----------------------------------------------------------------------------
(* The ingestion server: one webhook request *)

\* The literal id given to an event whose body names no session
UnknownId == <<"u", "n", "k", "n", "o", "w", "n">>

\* A parsed JSON object body: the two id fields and the payload
BodyObject(session_id, sessionId, data) ==
    [ kind |-> "object", session_id |-> session_id, sessionId |-> sessionId, data |-> data ]

\* A body JSON.parse rejects, and the body that parses to null
BadJsonBody == [ kind |-> "invalid", session_id |-> NoId, sessionId |-> NoId, data |-> EmptyData ]
NullBody == [ kind |-> "null", session_id |-> NoId, sessionId |-> NoId, data |-> EmptyData ]

\* url.pathname.split('/').filter(Boolean), then the last part; undefined when
\* there is none. pieces is the pathname split at '/'.
HookTypeOf(pieces) ==
    LET pathParts == SelectSeq(pieces, LAMBDA x : x # "")
    IN IF pathParts = <<>> THEN undefined ELSE pathParts[Len(pathParts)]

\* session_id || sessionId || 'unknown'
SessionIdOf(body) ==
    IF body.session_id # NoId THEN body.session_id
    ELSE IF body.sessionId # NoId THEN body.sessionId
    ELSE UnknownId

\* A session_id that is a JSON number: the id 7, which has no substring method
NumericId == << "7" >>

\* typeof sessionId === 'string'
IsString(id) == id # NumericId

\* Mutant: what the handler throws is not caught, and no answer is written
Answer_NoCatch(req) ==
    IF req.method = "OPTIONS" THEN [status |-> 200, op |-> "preflight"]
    ELSE IF req.method # "POST" THEN [status |-> 405, op |-> "bad-method"]
    ELSE IF req.body.kind = "invalid" THEN [status |-> 0, op |-> "bad-json"]
    ELSE IF HookTypeOf(req.url) \notin HookTypes THEN [status |-> 400, op |-> "bad-type"]
    ELSE IF req.body.kind = "null" THEN [status |-> 0, op |-> "null-body"]
    ELSE IF ~IsString(SessionIdOf(req.body)) THEN [status |-> 0, op |-> "process"]
    ELSE [status |-> 200, op |-> "process"]

\* Mutant: the session is ensured before the hook type is validated
Answer_EnsureFirst(req) ==
    IF req.method = "OPTIONS" THEN [status |-> 200, op |-> "preflight"]
    ELSE IF req.method # "POST" THEN [status |-> 405, op |-> "bad-method"]
    ELSE IF req.body.kind = "invalid" THEN [status |-> 500, op |-> "bad-json"]
    ELSE IF req.body.kind = "null" THEN [status |-> 500, op |-> "null-body"]
    ELSE [status |-> 200, op |-> "process"]

\* The request handler: the status it answers and whether the event is handed
\* to handleHookEvent (op "process"). An id that is not a string is handed over
\* and applied; event.sessionId.substring then throws inside handleHookEvent,
\* and the catch answers 500
Answer(req) ==
    IF req.method = "OPTIONS" THEN [status |-> 200, op |-> "preflight"]
    ELSE IF req.method # "POST" THEN [status |-> 405, op |-> "bad-method"]
    ELSE IF req.body.kind = "invalid" THEN [status |-> 500, op |-> "bad-json"]
    ELSE IF HookTypeOf(req.url) \notin HookTypes THEN [status |-> 400, op |-> "bad-type"]
    ELSE IF req.body.kind = "null" THEN [status |-> 500, op |-> "null-body"]
    ELSE IF ~IsString(SessionIdOf(req.body)) THEN [status |-> 500, op |-> "process"]
    ELSE [status |-> 200, op |-> "process"]

Request(method, url, body) == [method |-> method, url |-> url, body |-> body]

\* The pathnames, split at '/': the hook paths (one under a prefix, one with a
\* trailing slash), a wrong type, a type in the wrong case, the bare root
HookUrl(type) ==
    CASE type = "Notification" -> << "", "hooks", "Notification" >>
      [] type = "SessionEnd" -> << "", "SessionEnd", "" >>
      [] OTHER -> << "", type >>

BadUrls == { << "", "Bogus" >>, << "", "notification" >>, << "", "" >> }

\* The payloads a request carries
ServerPayloads(type) ==
    CASE type = "SessionStart" -> { [EmptyData EXCEPT !.working_directory = "/tmp/proj"] }
      [] type = "Notification" -> { [EmptyData EXCEPT !.message = "need input"] }
      [] OTHER -> { EmptyData }

\* The hook types the requests carry
ServerTypes == { "SessionStart", "Notification", "SessionEnd" }

GoodBodies(type) ==
    { BodyObject(id, NoId, d) : id \in SessionIds, d \in ServerPayloads(type) }

ServerRequests ==
    UNION { { Request("POST", HookUrl(ty), b) : b \in GoodBodies(ty) } : ty \in ServerTypes }
    \cup { Request("POST", HookUrl("SessionStart"), BodyObject(NoId, <<"a", "b">>, EmptyData)),
            Request("POST", HookUrl("Notification"), BodyObject(NoId, NoId, EmptyData)) }
    \cup { Request("POST", HookUrl("SessionStart"), b) : b \in {BadJsonBody, NullBody} }
    \cup { Request("POST", u, BodyObject(<<"a", "b">>, NoId, EmptyData)) : u \in BadUrls }
    \cup { Request("POST", << "", "Bogus" >>, BadJsonBody) }
    \cup { Request("POST", HookUrl("SessionStart"), BodyObject(NumericId, NoId, EmptyData)) }
    \cup { Request(m, HookUrl("SessionStart"), BodyObject(<<"a", "b">>, NoId, EmptyData)) : m \in {"OPTIONS", "GET"} }

\* One request served by the handler of createServer
HookRequest(req) ==
    /\ nEvents < MaxEvents
    /\ LET a == Answer(req)
           event == [type |-> HookTypeOf(req.url), sessionId |-> SessionIdOf(req.body), data |-> req.body.data]
       IN IF a.op = "process"
          THEN LET r == handleHookEvent(sessions, event, now)
               IN /\ sessions' = r.reg
                  /\ timers' = timers \cup r.scheduled
                  /\ last' = Call("process", ~MapHas(sessions, event.sessionId), event.sessionId,
                                  event.type, event.data, sessions, r.ret, r.scheduled,
                                  Http(req.method, req.body.kind, a.status))
          ELSE /\ last' = Call(a.op, FALSE, NoId, HookTypeOf(req.url), req.body.data, sessions, None, {},
                               Http(req.method, req.body.kind, a.status))
               /\ UNCHANGED <<sessions, timers>>
    /\ nEvents' = nEvents + 1
    /\ lookup' = NoLookup
    /\ UNCHANGED now
    /\ UNCHANGED sendVars
    /\ UNCHANGED srvVars

NextServer ==
    \/ \E req \in ServerRequests : HookRequest(req)
    \/ \E t \in timers : TimerFire(t)
    \/ Tick

SpecServer == Init /\ [][NextServer]_vars

----------------------------------------------------------------------------
(* The ingestion server: requests in flight on the event loop *)

\* The settings the switch of handleHookEvent reads: notifications off, desktop
\* notifications only, or a remote channel (voice, SMS, Telegram, Discord)
\* enabled, whose send is awaited
NotifySettings == { "off", "desktop", "remote" }

\* Mutant: every event triggers the fan-out
FanoutOf_All(event, notify) == notify

\* The switch of handleHookEvent: which events trigger the notification fan-out
FanoutOf(event, notify) ==
    CASE event.type = "SessionEnd" -> notify
      [] event.type = "Notification" -> IF Truthy(event.data.message) THEN notify ELSE "off"
      [] event.type = "Stop" -> IF Truthy(event.data.reason) THEN notify ELSE "off"
      [] OTHER -> "off"

\* notifyRenderer: the registry's sessions are sent to the popover window when
\* there is one and it is not destroyed
notifyRenderer(reg, window) == [snapshot |-> getSessions(reg), sent |-> window]

\* Mutant: the event loop takes a new task while a handler waits
MacrotaskReady_Always(micro) == TRUE

\* The event loop takes its next task (a socket event, a timer, a completed
\* send) only when the microtask queue is empty
MacrotaskReady(micro) == micro = <<>>

\* The payload sent with each hook type
HookPayload(type) ==
    CASE type = "Notification" -> [EmptyData EXCEPT !.message = "need input"]
      [] type = "Stop" -> [EmptyData EXCEPT !.reason = "Task completed"]
      [] type = "PreToolUse" -> [EmptyData EXCEPT !.tool_name = "Bash"]
      [] OTHER -> EmptyData

\* The events the requests carry: every hook type, for every session
HookEvents ==
    { [type |-> ty, sessionId |-> id, data |-> HookPayload(ty)] : ty \in HookTypes, id \in SessionIds }

\* The event the handler builds from a request
EventOf(req) ==
    [type |-> HookTypeOf(req.url), sessionId |-> SessionIdOf(req.body), data |-> req.body.data]

\* A POST for a hook reaches the handler, which awaits parseRequestBody
Arrive(event) ==
    /\ Len(hooks.reqs) < MaxRequests
    /\ MacrotaskReady(hooks.micro)
    /\ hooks' = [hooks EXCEPT !.reqs = Append(hooks.reqs,
                    Req(Request("POST", HookUrl(event.type), BodyObject(event.sessionId, NoId, event.data)),
                        event, "receiving", "none", FALSE, 0))]
    /\ UNCHANGED <<sessions, timers, now, nEvents, last, lookup, listener, chat>>
    /\ UNCHANGED sendVars

\* The 'end' event of a request: its body is complete, the promise of
\* parseRequestBody resolves and the rest of the handler is queued as a microtask
BodyEnd(i) ==
    /\ i \in 1..Len(hooks.reqs)
    /\ hooks.reqs[i].pc = "receiving"
    /\ MacrotaskReady(hooks.micro)
    /\ hooks' = [hooks EXCEPT !.reqs[i].pc = "queued",
                               !.micro = Append(hooks.micro, i),
                               !.received = Append(hooks.received, i)]
    /\ UNCHANGED <<sessions, timers, now, nEvents, last, lookup, listener, chat>>
    /\ UNCHANGED sendVars

\* Mutant: the handler does not wait for the sends it started
AwaitsFanout_Never(fanout) == FALSE

\* await speakText / sendSms / sendTelegram / sendDiscord: the handler waits for
\* the sends of a remote fan-out before it answers
AwaitsFanout(fanout) == fanout = "remote"

\* A request that is not a POST: the handler answers it at once, before it
\* reads a body. A POST waits for its body like every other
Receive(req) ==
    /\ Len(hooks.reqs) < MaxRequests
    /\ MacrotaskReady(hooks.micro)
    /\ hooks' = [hooks EXCEPT !.reqs = Append(hooks.reqs,
                    IF req.method # "POST"
                    THEN Req(req, EventOf(req), "answered", "none", FALSE, Answer(req).status)
                    ELSE Req(req, EventOf(req), "receiving", "none", FALSE, 0))]
    /\ UNCHANGED <<sessions, timers, now, nEvents, last, lookup, listener, chat>>
    /\ UNCHANGED sendVars

\* The handler goes on from the await of parseRequestBody to the first await
\* of handleHookEvent: ensureSession, processHookEvent, notifyRenderer, and the
\* switch that starts the notification fan-out; notify is the settings it
\* reads, window whether the popover window is there
Continue(notify, window) ==
    /\ hooks.micro # <<>>
    /\ LET i == Head(hooks.micro)
           req == hooks.reqs[i].req
           a == Answer(req)
           event == hooks.reqs[i].event
           r == handleHookEvent(sessions, event, now)
           fanout == IF a.status = 200 THEN FanoutOf(event, notify) ELSE "none"
           awaits == AwaitsFanout(fanout)
       IN IF a.op = "process"
          THEN /\ sessions' = r.reg
               /\ timers' = timers \cup r.scheduled
               /\ last' = Call("process", ~MapHas(sessions, event.sessionId), event.sessionId,
                               event.type, event.data, sessions, r.ret, r.scheduled,
                               Http(req.method, req.body.kind, a.status))
               /\ hooks' = [hooks EXCEPT !.reqs[i].pc = IF awaits THEN "fanout" ELSE "answered",
                                          !.reqs[i].fanout = fanout,
                                          !.reqs[i].pending = (fanout = "remote"),
                                          !.reqs[i].status = IF awaits THEN 0 ELSE a.status,
                                          !.micro = Tail(hooks.micro),
                                          !.applied = Append(hooks.applied, i),
                                          !.ui = Some(notifyRenderer(r.reg, window))]
          ELSE /\ last' = Call(a.op, FALSE, NoId, event.type, req.body.data, sessions, None, {},
                               Http(req.method, req.body.kind, a.status))
               /\ hooks' = [hooks EXCEPT !.reqs[i].pc = "answered",
                                          !.reqs[i].status = a.status,
                                          !.micro = Tail(hooks.micro)]
               /\ UNCHANGED <<sessions, timers>>
    /\ lookup' = NoLookup
    /\ UNCHANGED <<now, nEvents, listener, chat>>
    /\ UNCHANGED sendVars

\* The sends a handler awaited are done: it answers 200
FanoutDone(i) ==
    /\ i \in 1..Len(hooks.reqs)
    /\ hooks.reqs[i].pc = "fanout"
    /\ MacrotaskReady(hooks.micro)
    /\ hooks' = [hooks EXCEPT !.reqs[i].pc = "answered",
                               !.reqs[i].pending = FALSE,
                               !.reqs[i].status = 200]
    /\ UNCHANGED <<sessions, timers, now, nEvents, last, lookup, listener, chat>>
    /\ UNCHANGED sendVars

NextHooks ==
    \/ \E event \in HookEvents : Arrive(event)
    \/ \E i \in 1..MaxRequests : BodyEnd(i)
    \/ \E notify \in NotifySettings, window \in BOOLEAN : Continue(notify, window)
    \/ \E i \in 1..MaxRequests : FanoutDone(i)

SpecHooks == Init /\ [][NextHooks]_vars

\* The requests of every kind: a hook with a fan-out, a preflight, a GET, a
\* body that does not parse, a wrong type
AnswerRequests ==
    { Request("POST", HookUrl("Notification"), BodyObject(<<"a", "b">>, NoId, HookPayload("Notification"))),
      Request("POST", HookUrl("SessionStart"), BadJsonBody),
      Request("POST", << "", "Bogus" >>, BodyObject(<<"a", "b">>, NoId, EmptyData)) }
    \cup { Request(m, HookUrl("SessionStart"), BodyObject(<<"a", "b">>, NoId, EmptyData)) : m \in {"OPTIONS", "GET"} }

NextAnswer ==
    \/ \E req \in AnswerRequests : Receive(req)
    \/ \E i \in 1..MaxRequests : BodyEnd(i)
    \/ \E notify \in NotifySettings, window \in BOOLEAN : Continue(notify, window)
    \/ \E i \in 1..MaxRequests : FanoutDone(i)

\* The client ends the body of the request it began, the event loop runs the
\* handlers it queued, and every send the fan-out awaits settles
SpecAnswer ==
    /\ Init /\ [][NextAnswer]_vars
    /\ WF_vars(\E i \in 1..MaxRequests : BodyEnd(i))
    /\ WF_vars(\E notify \in NotifySettings, window \in BOOLEAN : Continue(notify, window))
    /\ WF_vars(\E i \in 1..MaxRequests : FanoutDone(i))

----------------------------------------------------------------------------
(* The ingestion server's listener: binding and port-conflict recovery *)

\* const maxPort = 31548 + 10
maxPort == BASE_PORT + PORT_ATTEMPTS

\* The ports the user sets in the settings window: the default, one below it,
\* two inside the range the recovery walks, one above it
ConfiguredPorts ==
    { DEFAULT_HOOK_PORT, DEFAULT_HOOK_PORT - 5, DEFAULT_HOOK_PORT + 5, maxPort, maxPort + 2 }

\* What listen() reports: it bound, the port is in use, another error
BindOutcomes == { "listening", "EADDRINUSE", "EACCES" }

\* server.on('error'): on EADDRINUSE below maxPort the next port is persisted and
\* startHookServer runs again, which reads it back; at maxPort or above the
\* handler logs and returns; any other error is logged only
onError(l, code) ==
    IF code = "EADDRINUSE"
    THEN IF l.port >= maxPort
         THEN Listener(l.configured, l.port, "gaveUp", l.attempts)
         ELSE Listener(l.port + 1, l.port + 1, "binding", l.attempts + 1)
    ELSE Listener(l.configured, l.port, "failed", l.attempts)

\* The settings window saves a port (SAVE_SETTINGS); the listener is not restarted
SaveSettings(p) ==
    /\ listener.state # "binding"
    /\ listener' = [listener EXCEPT !.configured = p]
    /\ UNCHANGED <<chat, hooks>>
    /\ UNCHANGED regVars
    /\ UNCHANGED sendVars

\* The application starts: startHookServer() binds the configured port
StartHookServer ==
    /\ listener.state = "stopped"
    /\ listener' = Listener(listener.configured, listener.configured, "binding", 0)
    /\ UNCHANGED <<chat, hooks>>
    /\ UNCHANGED regVars
    /\ UNCHANGED sendVars

\* listen() completes, or the server emits 'error'
Bind(outcome) ==
    /\ listener.state = "binding"
    /\ listener' = IF outcome = "listening"
                    THEN [listener EXCEPT !.state = "listening"]
                    ELSE onError(listener, outcome)
    /\ UNCHANGED <<chat, hooks>>
    /\ UNCHANGED regVars
    /\ UNCHANGED sendVars

\* The application quits: stopHookServer()
StopHookServer ==
    /\ listener.state \in {"listening", "gaveUp", "failed"}
    /\ listener' = Listener(listener.configured, 0, "stopped", listener.attempts)
    /\ UNCHANGED <<chat, hooks>>
    /\ UNCHANGED regVars
    /\ UNCHANGED sendVars

NextListener ==
    \/ \E p \in ConfiguredPorts : SaveSettings(p)
    \/ StartHookServer
    \/ \E outcome \in BindOutcomes : Bind(outcome)
    \/ StopHookServer

SpecListener == Init /\ [][NextListener]_vars

\* A request served by the listener once it is bound
Served(req) ==
    /\ listener.state = "listening"
    /\ HookRequest(req)

\* The application starts the ingestion server, which binds its port and serves
NextUp ==
    \/ StartHookServer
    \/ Bind("listening")
    \/ \E req \in ServerRequests : Served(req)

SpecUp == Init /\ [][NextUp]_vars

----------------------------------------------------------------------------
(* The delivery channel's actions *)

\* A wrapper is started around a session: it takes a free port, writes the
\* handle file (over any other wrapper's) and serves /input
StartWrapper(id) ==
    /\ ~wrapper[id].running
    /\ LET port == FreePort(wrapper)
       IN /\ wrapper' = [wrapper EXCEPT ![id] = [running |-> TRUE, port |-> port]]
          /\ portFile' = Some([port |-> port, pid |-> PidOf(id)])
    /\ call' = Settled(call)
    /\ tries' = SettledTries(call, tries)
    /\ UNCHANGED <<dropbox, stdin, nSends, fsop>>
    /\ UNCHANGED regVars
    /\ UNCHANGED srvVars

\* A wrapper shuts down (its session exits, SIGINT, SIGTERM): cleanup() removes
\* the handle file, whichever wrapper wrote it
ExitWrapper(id) ==
    /\ wrapper[id].running
    /\ wrapper' = [wrapper EXCEPT ![id] = [running |-> FALSE, port |-> 0]]
    /\ portFile' = None
    /\ call' = Settled(call)
    /\ tries' = SettledTries(call, tries)
    /\ UNCHANGED <<dropbox, stdin, nSends, fsop>>
    /\ UNCHANGED regVars
    /\ UNCHANGED srvVars

\* A wrapper is killed without running cleanup(): the handle file stays
KillWrapper(id) ==
    /\ wrapper[id].running
    /\ wrapper' = [wrapper EXCEPT ![id] = [running |-> FALSE, port |-> 0]]
    /\ call' = Settled(call)
    /\ tries' = SettledTries(call, tries)
    /\ UNCHANGED <<portFile, dropbox, stdin, nSends, fsop>>
    /\ UNCHANGED regVars
    /\ UNCHANGED srvVars

\* Mutant: the file fallback reports success whatever the write did
Fallback_AlwaysTrue(sessionId, input, viaHttp, handle, fsOk) ==
    /\ dropbox' = IF fsOk THEN WriteDropbox(dropbox, sessionId, input, now) ELSE dropbox
    /\ call' = Send("done", sessionId, input, 0, 0, viaHttp, TRUE, handle,
                    IF fsOk THEN "written" ELSE "failed")

\* The file fallback of sendInputToSession and its return value; fsOk is whether
\* the file system accepts the write
Fallback(sessionId, input, viaHttp, handle, fsOk) ==
    /\ dropbox' = IF fsOk THEN WriteDropbox(dropbox, sessionId, input, now) ELSE dropbox
    /\ call' = Send("done", sessionId, input, 0, 0, viaHttp, fsOk, handle,
                    IF fsOk THEN "written" ELSE "failed")

\* sendInputToSession(sessionId, input) is called: with a live wrapper handle it
\* enters sendInputViaHttp, without one it writes the drop-box file and returns
SendInputToSession(sessionId, input, fsOk) ==
    /\ call.pc # "http"
    /\ nSends < MaxSends
    /\ nSends' = nSends + 1
    /\ LET h == getWrapperPort(portFile, wrapper)
       IN /\ portFile' = h.file
          /\ IF h.port # 0
             THEN /\ call' = Send("http", sessionId, input, h.port, 0, TRUE, FALSE, "live", "none")
                  /\ UNCHANGED dropbox
             ELSE Fallback(sessionId, input, FALSE, HandleState(portFile, wrapper), fsOk)
    /\ stdin' = [id \in SessionIds |-> <<>>]
    /\ tries' = <<>>
    /\ fsop' = NoFsOp
    /\ UNCHANGED wrapper
    /\ UNCHANGED regVars
    /\ UNCHANGED srvVars

\* One pass of the loop of sendInputViaHttp: the attempt (after its delay),
\* then on failure the liveness re-check, and on giving up the file fallback
HttpAttempt(outcome, fsOk) ==
    /\ call.pc = "http"
    /\ LET listeners == ListeningOn(wrapper, call.port)
           written == outcome # "failed" /\ listeners # {}
           success == outcome = "ok" /\ listeners # {}
           h == getWrapperPort(portFile, wrapper)
       IN /\ stdin' = [id \in SessionIds |->
                          IF written /\ id \in listeners
                          THEN Append(stdin[id], [input |-> call.input, sentTo |-> call.sessionId])
                          ELSE stdin[id]]
          /\ IF success
             THEN /\ call' = Send("done", call.sessionId, call.input, call.port, call.attempt, TRUE, TRUE,
                                  call.handle, "none")
                  /\ UNCHANGED <<portFile, dropbox>>
             ELSE /\ portFile' = h.file
                  /\ IF RetryHttp(h.port, call.attempt)
                     THEN /\ call' = [call EXCEPT !.attempt = call.attempt + 1]
                          /\ UNCHANGED dropbox
                     ELSE Fallback(call.sessionId, call.input, TRUE, call.handle, fsOk)
          /\ tries' = Append(tries, Try(Delays[call.attempt + 1], success,
                                         IF success THEN "none" ELSE IF h.port # 0 THEN "live" ELSE "gone"))
    /\ fsop' = NoFsOp
    /\ UNCHANGED <<wrapper, nSends>>
    /\ UNCHANGED regVars
    /\ UNCHANGED srvVars

NextSend ==
    \/ \E id \in SessionIds : StartWrapper(id)
    \/ \E id \in SessionIds : ExitWrapper(id)
    \/ \E id \in SessionIds : KillWrapper(id)
    \/ \E id \in SessionIds, input \in Texts, fsOk \in BOOLEAN : SendInputToSession(id, input, fsOk)
    \/ \E outcome \in HttpOutcomes, fsOk \in BOOLEAN : HttpAttempt(outcome, fsOk)

SpecSend == Init /\ [][NextSend]_vars

----------------------------------------------------------------------------
(* The drop-box's actions: the file transport, its reader and its sweeper.
   No wrapper runs, so every send takes the file transport. *)

\* The hook script of a session asks for its pending input
ReadPendingInput(sessionId) ==
    /\ LET r == readPendingInput(dropbox, sessionId)
       IN /\ dropbox' = r.box
          /\ fsop' = FsOp("read", sessionId, TRUE, dropbox, now, r.ret)
    /\ call' = Settled(call)
    /\ tries' = SettledTries(call, tries)
    /\ UNCHANGED <<portFile, wrapper, stdin, nSends>>
    /\ UNCHANGED regVars
    /\ UNCHANGED srvVars

\* The periodic sweep set up by setInterval(cleanupOldInputs, 60000)
CleanupOldInputs(failAt) ==
    /\ dropbox' = cleanupOldInputs(dropbox, now, failAt)
    /\ fsop' = FsOp("sweep", <<>>, failAt = 0, dropbox, now, Some(SweepOutcome(TRUE, failAt)))
    /\ call' = Settled(call)
    /\ tries' = SettledTries(call, tries)
    /\ UNCHANGED <<portFile, wrapper, stdin, nSends>>
    /\ UNCHANGED regVars
    /\ UNCHANGED srvVars

\* The sweep runs while the drop-box directory is missing (nothing was ever
\* written, or the directory was removed)
CleanupNoDirectory ==
    /\ \A id \in SessionIds : dropbox[id] = None
    /\ fsop' = FsOp("sweep-nodir", <<>>, TRUE, dropbox, now, Some(SweepOutcome(FALSE, 0)))
    /\ call' = Settled(call)
    /\ tries' = SettledTries(call, tries)
    /\ UNCHANGED <<dropbox, portFile, wrapper, stdin, nSends>>
    /\ UNCHANGED regVars
    /\ UNCHANGED srvVars

\* The sweep runs while the hook script of a session reads its pending input:
\* the file is in the listing, the reader deletes it before the sweep comes to
\* it, and the sweep's statSync throws at its position
CleanupRacesRead(sessionId) ==
    /\ dropbox[sessionId] # None
    /\ LET swept == cleanupOldInputs(dropbox, now, DirIndex(sessionId))
           r == readPendingInput(swept, sessionId)
       IN /\ dropbox' = r.box
          /\ fsop' = FsOp("sweep-race", sessionId, FALSE, dropbox, now,
                          Some(SweepOutcome(TRUE, DirIndex(sessionId))))
    /\ call' = Settled(call)
    /\ tries' = SettledTries(call, tries)
    /\ UNCHANGED <<portFile, wrapper, stdin, nSends>>
    /\ UNCHANGED regVars
    /\ UNCHANGED srvVars

\* Time passes on the drop-box's scale: half of maxAge at a time
Elapse ==
    /\ now < MaxElapse * (maxAge \div 2)
    /\ now' = now + (maxAge \div 2)
    /\ UNCHANGED <<sessions, timers, nEvents, last, lookup>>
    /\ UNCHANGED sendVars
    /\ UNCHANGED srvVars

NextDropbox ==
    \/ \E id \in SessionIds, input \in Texts, fsOk \in BOOLEAN : SendInputToSession(id, input, fsOk)
    \/ \E id \in SessionIds : ReadPendingInput(id)
    \/ \E failAt \in 0..Len(DirOrder) : CleanupOldInputs(failAt)
    \/ CleanupNoDirectory
    \/ \E id \in SessionIds : CleanupRacesRead(id)
    \/ Elapse

SpecDropbox == Init /\ [][NextDropbox]_vars

\* The periodic sweep: setInterval(cleanupOldInputs, 60000) runs the sweep
\* again and again, and the clock moves on. The file system may throw at any
\* entry listed before the last one.
NextSweep ==
    \/ \E id \in SessionIds, input \in Texts, fsOk \in BOOLEAN : SendInputToSession(id, input, fsOk)
    \/ \E id \in SessionIds : ReadPendingInput(id)
    \/ \E failAt \in 0..(Len(DirOrder) - 1) : CleanupOldInputs(failAt)
    \/ Elapse

SpecSweep ==
    /\ Init /\ [][NextSweep]_vars
    /\ WF_vars(Elapse)
    /\ WF_vars(\E failAt \in 0..(Len(DirOrder) - 1) : CleanupOldInputs(failAt))

----------------------------------------------------------------------------
(* The inbound chat replies: Telegram and Discord *)

\* text.match(/^.session\s+(\w+)\s+(.+)$/s): the session command with a
\* prefix and a text
IsSessionCommand(msg) == msg.cmd = "session" /\ msg.prefix # <<>> /\ msg.body # <<>>

\* text.startsWith('/'), content.startsWith('!'): the message is a command
IsCommand(msg) == msg.cmd # ""

\* What a handler does: the reply it sends back, or the session and the text it
\* calls sendInputToSession with
Reply(reply) == [send |-> FALSE, target |-> <<>>, input |-> <<>>, reply |-> reply]
Deliver(target, input) == [send |-> TRUE, target |-> target, input |-> input, reply |-> "none"]

\* The unscoped tail of both handlers: the target session, else the reply that
\* there is none
ToTarget(reg, input) ==
    LET target == findTargetSession(reg)
    IN IF target # None THEN Deliver(target[1].id, input) ELSE Reply("no-session")

\* handleIncomingTelegramMessage
handleIncomingTelegramMessage(reg, msg) ==
    LET result == findSessionById(reg, msg.prefix)
    IN IF IsSessionCommand(msg) /\ ~(result.found /\ result.session # None)
       THEN IF result.ambiguous /\ result.matches # None THEN Reply("ambiguous") ELSE Reply("not-found")
       ELSE IF msg = Msg("status", <<>>, <<>>) THEN Reply("status")
       ELSE IF msg = Msg("help", <<>>, <<>>) THEN Reply("help")
       ELSE IF IsCommand(msg) THEN Reply("none")
       ELSE IF IsSessionCommand(msg) THEN Deliver(result.session[1].id, msg.body)
       ELSE ToTarget(reg, msg.body)

\* handleIncomingDiscordMessage; its own findSessionById resolves as the shared
\* one does
handleIncomingDiscordMessage(reg, msg) ==
    LET found == findSessionById(reg, msg.prefix)
    IN IF IsSessionCommand(msg) /\ ~found.found
       THEN IF found.ambiguous THEN Reply("ambiguous") ELSE Reply("not-found")
       ELSE IF msg = Msg("status", <<>>, <<>>) THEN Reply("status")
       ELSE IF msg = Msg("help", <<>>, <<>>) THEN Reply("help")
       ELSE IF IsCommand(msg) /\ msg.cmd \notin {"claude", "session"} THEN Reply("none")
       ELSE IF IsSessionCommand(msg)
       THEN IF getSession(reg, found.session[1].id) = None
            THEN Reply("not-found")
            ELSE Deliver(found.session[1].id, msg.body)
       ELSE ToTarget(reg, msg.body)

\* The messages: free text, the session command with every prefix, the status
\* and help commands, Discord's claude command, a command neither handler knows
ChatPrefixes == { <<"a">>, <<"a", "b">>, <<"a", "b", "c">>, <<"c">> }

ChatText == <<121, 101, 115>>

ChatMessages ==
    { Msg("", <<>>, ChatText), Msg("status", <<>>, <<>>), Msg("help", <<>>, <<>>),
      Msg("claude", <<>>, ChatText), Msg("other", <<>>, <<>>) }
    \cup { Msg("session", p, ChatText) : p \in ChatPrefixes }

\* The events that build the registry the replies are resolved on
ChatEvents == { e \in ResolverEvents : e.sessionId \in SessionIds }

\* Mutant: the handler clears the waiting status of the session it sent to
RegistryAfterSend_ClearWaiting(reg, sessionId, success) ==
    IF success THEN updateSession(reg, sessionId, ClearWaitingUpdates, now) ELSE reg

\* The registry once sendInputToSession has returned and the handler has
\* answered on the channel: neither reads or writes the sessions Map
\* (clearWaitingStatus has no caller)
RegistryAfterSend(reg, sessionId, success) == reg

\* A message arrives on a channel and its handler runs; no wrapper runs, so
\* sendInputToSession takes the file transport
ChatMessage(channel, msg, fsOk) ==
    /\ nSends < MaxSends
    /\ nSends' = nSends + 1
    /\ LET o == IF channel = "telegram"
                THEN handleIncomingTelegramMessage(sessions, msg)
                ELSE handleIncomingDiscordMessage(sessions, msg)
       IN IF o.send
          THEN /\ Fallback(o.target, o.input, FALSE, HandleState(portFile, wrapper), fsOk)
               /\ chat' = Chat(channel, msg, Some(o.target), IF fsOk THEN "sent" ELSE "failed")
               /\ sessions' = RegistryAfterSend(sessions, o.target, fsOk)
          ELSE /\ chat' = Chat(channel, msg, None, o.reply)
               /\ call' = Settled(call)
               /\ UNCHANGED <<dropbox, sessions>>
    /\ tries' = SettledTries(call, tries)
    /\ UNCHANGED <<portFile, wrapper, stdin, fsop, listener, hooks>>
    /\ UNCHANGED <<timers, now, nEvents, last, lookup>>

NextChat ==
    \/ \E event \in ChatEvents : HandleHookEvent(event)
    \/ \E channel \in {"telegram", "discord"}, msg \in ChatMessages, fsOk \in BOOLEAN :
          ChatMessage(channel, msg, fsOk)

SpecChat == Init /\ [][NextChat]_vars

----------------------------------------------------------------------------
(* Claims about the registry, checked under Spec *)

\* The call recorded in last was a processHookEvent of the given type
Processed(type) == last.op = "process" /\ last.type = type

\* The session of the last call was in the registry when processHookEvent ran
WasPresent == last.before # None \/ last.ensured

\* C2: if SessionEnd for id s schedules the delayed removal and a new session
\* with id s is started before that timer fires, the pending removal does not
\* delete the newer incarnation: when the timer of a SessionEnd fires on a
\* session that was created after the timer was set, get(s) still returns it.
C2_RestartSurvivesOldTimer ==
    ( /\ last.op = "timer"
      /\ last.before # None
      /\ \E t \in last.scheduled : t.live /\ last.before[1].startTime > t.due - GRACE_MS )
    => getSession(sessions, last.id) = last.before

C4_StaysDuringGrace ==
    \A t \in timers : (t.live /\ now < t.due) => MapHas(sessions, t.id)

\* C5: for every session and every update or process call, SessionStart
\* overwriting it included, lastActivity after the call is greater than or
\* equal to its value before the call.
C5_LastActivityMonotone ==
    (last.op \in {"process", "clearWaiting"} /\ last.before # None) =>
        /\ last.ret # None
        /\ last.ret = getSession(sessions, last.id)
        /\ last.ret[1].lastActivity >= last.before[1].lastActivity

\* A SessionStart overwrote an older session, at a later time
C5_Witness ==
    /\ Processed("SessionStart")
    /\ last.before # None
    /\ last.ret # None
    /\ last.ret[1].lastActivity > last.before[1].lastActivity

\* C6: process(SessionStart) for an id that has no session creates exactly one
\* session with status active and workingDirectory from the payload or
\* "Unknown"; the registry holds that id once, and no other session was added
\* or removed.
C6_SessionStartCreatesOne ==
    (Processed("SessionStart") /\ last.before = None) =>
        /\ last.ret # None
        /\ last.ret = getSession(sessions, last.id)
        /\ last.ret[1].id = last.id
        /\ last.ret[1].status = "active"
        /\ last.ret[1].workingDirectory = Or(last.data.working_directory, "Unknown")
        /\ Cardinality({ i \in 1..Len(sessions) : sessions[i].id = last.id }) = 1
        /\ Len(sessions) = Len(last.idsBefore) + 1
        /\ \A j \in 1..Len(last.idsBefore) : MapHas(sessions, last.idsBefore[j])

\* A SessionStart created a session beside another one, with the payload's directory
C6_Witness ==
    /\ Processed("SessionStart")
    /\ ~last.ensured
    /\ last.before = None
    /\ Len(last.idsBefore) = 1
    /\ Len(sessions) = 2
    /\ last.data.working_directory = "/tmp/proj"

\* C7: for an existing session in any prior state, process(Notification) sets
\* status to waiting; process(PreToolUse) or process(PostToolUse) sets status to
\* active and clears question, options and lastNotification; PreToolUse sets
\* currentTool to the payload's tool name and PostToolUse clears it.
C7_NotificationThenTool ==
    /\ (Processed("Notification") /\ WasPresent) =>
          /\ last.ret # None
          /\ last.ret = getSession(sessions, last.id)
          /\ last.ret[1].status = "waiting"
    /\ ((Processed("PreToolUse") \/ Processed("PostToolUse")) /\ WasPresent) =>
          /\ last.ret # None
          /\ last.ret = getSession(sessions, last.id)
          /\ last.ret[1].status = "active"
          /\ last.ret[1].question = undefined
          /\ last.ret[1].options = None
          /\ last.ret[1].lastNotification = undefined
          /\ Processed("PreToolUse") => last.ret[1].currentTool = last.data.tool_name
          /\ Processed("PostToolUse") => last.ret[1].currentTool = undefined

\* A PreToolUse arrived for a session that was waiting with a question and options
C7_Witness ==
    /\ Processed("PreToolUse")
    /\ last.before # None
    /\ last.before[1].status = "waiting"
    /\ last.before[1].question = "Proceed?"
    /\ last.before[1].options # None
    /\ last.ret # None
    /\ last.ret[1].currentTool = "Bash"

\* C8: for an existing session in any prior state, process(Stop) leaves the
\* session with status stopped and currentTool unset.
C8_StopClearsTool ==
    (Processed("Stop") /\ WasPresent) =>
        /\ last.ret # None
        /\ last.ret = getSession(sessions, last.id)
        /\ last.ret[1].status = "stopped"
        /\ last.ret[1].currentTool = undefined

\* A Stop arrived for an active session with a tool in flight
C8_Witness ==
    /\ Processed("Stop")
    /\ last.before # None
    /\ last.before[1].status = "active"
    /\ last.before[1].currentTool = "Bash"
    /\ last.ret # None
    /\ last.ret[1].status = "stopped"

\* C33: the delayed eviction scheduled by SessionEnd removes the session only
\* if it is still stopped when the timer fires: a session that later events
\* within the grace window returned to active or waiting is not removed from
\* the registry by that timer.
C33_TimerSparesRevived ==
    (/\ last.op = "timer"
     /\ last.before # None
     /\ last.before[1].status # "stopped") => MapHas(sessions, last.id)

\* C25: in every reachable registry state, each session stored under key k has
\* id = k, and no sequence of events changes the id of an existing session: the
\* ids in the registry are pairwise distinct, a lookup by k yields the session
\* whose id is k, and a step leaves the ids of the sessions it keeps as they
\* were, in their order.
C25_IdIsKey ==
    /\ \A i, j \in 1..Len(sessions) : sessions[i].id = sessions[j].id => i = j
    /\ \A i \in 1..Len(sessions) : getSession(sessions, sessions[i].id) = Some(sessions[i])
    /\ last.ret # None => last.ret[1].id = last.id
    /\ last.before # None => last.before[1].id = last.id
    /\ last.op = "timer" => Ids(sessions) = SelectSeq(last.idsBefore, LAMBDA k : k # last.id)
    /\ last.op \notin {"timer", "none"} =>
          /\ Len(sessions) >= Len(last.idsBefore)
          /\ SubSeq(Ids(sessions), 1, Len(last.idsBefore)) = last.idsBefore
          /\ Len(sessions) > Len(last.idsBefore) =>
                /\ Len(sessions) = Len(last.idsBefore) + 1
                /\ sessions[Len(sessions)].id = last.id

\* A SessionStart arrived again for a session the registry held, beside
\* another session
C25_Witness ==
    /\ last.op = "process"
    /\ last.type = "SessionStart"
    /\ last.before # None
    /\ Len(sessions) = 2
    /\ getSession(sessions, last.id)[1].id = last.id

----------------------------------------------------------------------------
(* Claims about the ingestion server, checked under SpecServer *)

\* The places in the registry of the sessions that are waiting
WaitingAt(reg) == { i \in 1..Len(reg) : reg[i].status = "waiting" }

C16_StartThenNotification ==
    [][ ( /\ Processed("SessionStart")
          /\ last.http.status = 200
          /\ last.data.working_directory = "/tmp/proj"
          /\ last'.op = "process"
          /\ last'.type = "Notification"
          /\ last'.http.status = 200
          /\ last'.id = last.id
          /\ last'.data.message = "need input" )
        => /\ getSession(sessions', last.id) # None
           /\ getSession(sessions', last.id)[1].status = "waiting"
           /\ getSession(sessions', last.id)[1].lastNotification = "need input"
           /\ getSession(sessions', last.id)[1].workingDirectory = "/tmp/proj" ]_vars

\* A Notification request was answered 200 for a session that a SessionStart
\* had created with its directory, and that had not been touched since
C16_Witness ==
    /\ Processed("Notification")
    /\ last.http.status = 200
    /\ last.data.message = "need input"
    /\ ~last.ensured
    /\ last.before # None
    /\ last.before[1].status = "active"
    /\ last.before[1].startTime = last.before[1].lastActivity
    /\ last.before[1].workingDirectory = "/tmp/proj"
    /\ getSession(sessions, last.id) # None
    /\ getSession(sessions, last.id)[1].status = "waiting"
    /\ getSession(sessions, last.id)[1].workingDirectory = "/tmp/proj"

\* C18: a webhook request whose body is not valid JSON, or whose final path
\* segment is not one of the six recognised event types, never reaches the
\* registry: once it is answered the registry is as it was before (no session
\* created, no field or lastActivity changed, no removal timer scheduled).
C18_MalformedLeavesRegistry ==
    [][ ( /\ last'.http.body # "none"
          /\ last'.http.body = "invalid" \/ last'.type \notin HookTypes )
        => /\ sessions' = sessions
           /\ timers' = timers
           /\ last'.http.status \in {400, 405, 500, 200}
           /\ last'.op # "process" ]_vars

\* A request with an unrecognised type was answered 400 while the registry held
\* a session and a pending timer
C18_Witness ==
    /\ last.op = "bad-type"
    /\ last.http.status = 400
    /\ last.http.body = "object"
    /\ Len(sessions) >= 1
    /\ timers # {}

----------------------------------------------------------------------------
(* Claims about the resolver, checked under SpecResolver *)

\* The sessions of the registry whose id starts with p
PrefixMatches(p) == { i \in 1..Len(sessions) : StartsWith(sessions[i].id, p) }

Ambiguous(r) == ~r.found /\ r.ambiguous /\ r.session = None

\* C9 as stated: findById(p) returns the ambiguous result whenever at least two
\* sessions have ids that start with p, also when one of those ids is exactly p.
C9_AmbiguousWheneverTwoMatch ==
    lookup.op = "resolve" =>
        \A p \in Queries :
            Cardinality(PrefixMatches(p)) >= 2 => Ambiguous(lookup.byId[p])

\* C9 amended: findById(p) returns the ambiguous result whenever at least two
\* sessions have ids that start with p and no session's id is exactly p; when a
\* session's id is exactly p, that session is returned, whatever else p prefixes.
C9_AmbiguousUnlessExact ==
    lookup.op = "resolve" =>
        \A p \in Queries :
            /\ (Cardinality(PrefixMatches(p)) >= 2 /\ ~MapHas(sessions, p))
               => Ambiguous(lookup.byId[p])
            /\ MapHas(sessions, p)
               => /\ lookup.byId[p].found
                  /\ ~lookup.byId[p].ambiguous
                  /\ lookup.byId[p].session = Some(SessionMatch(p, getSession(sessions, p)[1]))

\* A prefix shared by two sessions, neither of them named exactly, was looked
\* up beside a third session it does not match
C9_Witness ==
    /\ lookup.op = "resolve"
    /\ Len(sessions) = 3
    /\ \E p \in Queries :
          /\ Cardinality(PrefixMatches(p)) = 2
          /\ ~MapHas(sessions, p)
          /\ lookup.byId[p].ambiguous

\* C10: whenever at least one session is waiting, findTarget returns a waiting
\* session, even if an active session has a greater lastActivity than every
\* waiting one.
C10_WaitingPreferred ==
    (lookup.op = "resolve" /\ \E i \in 1..Len(sessions) : sessions[i].status = "waiting")
    => /\ lookup.target # None
       /\ lookup.target[1].session.status = "waiting"
       /\ getSession(sessions, lookup.target[1].id) = Some(lookup.target[1].session)

\* findTarget ran while an active session was more recent than every waiting one
C10_Witness ==
    /\ lookup.op = "resolve"
    /\ \E i \in 1..Len(sessions) : sessions[i].status = "waiting"
    /\ \E a \in 1..Len(sessions) :
          /\ sessions[a].status = "active"
          /\ \A w \in 1..Len(sessions) :
                sessions[w].status = "waiting" => sessions[a].lastActivity > sessions[w].lastActivity
    /\ lookup.target # None
    /\ lookup.target[1].session.status = "waiting"

\* C11: when no session is waiting, findTarget returns the active session with
\* the greatest lastActivity; when no session is waiting or active it returns
\* none, so a stopped session is never the target.
C11_MostRecentActiveElseNone ==
    (lookup.op = "resolve" /\ \A i \in 1..Len(sessions) : sessions[i].status # "waiting")
    => LET Active == { i \in 1..Len(sessions) : sessions[i].status = "active" }
       IN /\ Active = {} => lookup.target = None
          /\ Active # {} =>
                /\ lookup.target # None
                /\ \E i \in Active : lookup.target[1] = SessionMatch(sessions[i].id, sessions[i])
                /\ \A i \in Active : sessions[i].lastActivity <= lookup.target[1].session.lastActivity
          /\ lookup.target # None => lookup.target[1].session.status # "stopped"

\* findTarget ran with nobody waiting, two active sessions of different age, the
\* older one first in the registry, and a stopped session more recent than both
C11_Witness ==
    /\ lookup.op = "resolve"
    /\ Len(sessions) = 3
    /\ \A i \in 1..3 : sessions[i].status # "waiting"
    /\ sessions[1].status = "active"
    /\ \E a \in 2..3 : sessions[a].status = "active" /\ sessions[a].lastActivity > sessions[1].lastActivity
    /\ \E z \in 1..3 :
          /\ sessions[z].status = "stopped"
          /\ \A i \in 1..3 : sessions[i].lastActivity <= sessions[z].lastActivity
    /\ lookup.target # None
    /\ lookup.target[1].session.status = "active"

\* C12: findById(q) returns the session whose id is exactly q when there is
\* one; otherwise, over the sessions whose id starts with q, none gives
\* not-found, one gives that session, several give the ambiguous result whose
\* candidates are exactly those sessions. A resolved result names a session
\* that is in the registry.
C12_ExactThenPrefix ==
    lookup.op = "resolve" =>
        \A q \in Queries :
            LET r == lookup.byId[q]
                M == PrefixMatches(q)
            IN /\ MapHas(sessions, q) =>
                     r.found /\ r.session = Some(SessionMatch(q, getSession(sessions, q)[1]))
               /\ (~MapHas(sessions, q) /\ M = {}) =>
                     ~r.found /\ ~r.ambiguous /\ r.session = None /\ r.matches = None
               /\ (~MapHas(sessions, q) /\ Cardinality(M) = 1) =>
                     r.found /\ \E i \in M : r.session = Some(SessionMatch(sessions[i].id, sessions[i]))
               /\ (~MapHas(sessions, q) /\ Cardinality(M) > 1) =>
                     /\ Ambiguous(r)
                     /\ r.matches # None
                     /\ Len(r.matches[1]) = Cardinality(M)
                     /\ { r.matches[1][k] : k \in 1..Len(r.matches[1]) } = { sessions[i] : i \in M }
               /\ r.found =>
                     /\ r.session # None
                     /\ getSession(sessions, r.session[1].id) = Some(r.session[1].session)

\* One registry on which the queries fall in all four cases: an exact match
\* that is also a prefix of another id, a single prefix match, several prefix
\* matches, and no match
C12_Witness ==
    /\ lookup.op = "resolve"
    /\ \E q \in Queries : MapHas(sessions, q) /\ Cardinality(PrefixMatches(q)) = 2 /\ lookup.byId[q].found
    /\ \E q \in Queries : ~MapHas(sessions, q) /\ Cardinality(PrefixMatches(q)) = 1 /\ lookup.byId[q].found
    /\ \E q \in Queries : ~MapHas(sessions, q) /\ Cardinality(PrefixMatches(q)) = 3 /\ lookup.byId[q].ambiguous
    /\ \E q \in Queries : PrefixMatches(q) = {} /\ ~lookup.byId[q].found /\ ~lookup.byId[q].ambiguous

----------------------------------------------------------------------------
(* Claims about the drop-box, checked under SpecDropbox *)

C14_SweepOnlyStale ==
    fsop.op = "sweep" =>
        \A id \in SessionIds :
            /\ fsop.before[id] = None => dropbox[id] = None
            /\ fsop.before[id] # None =>
                  /\ dropbox[id] # fsop.before[id] => fsop.at - fsop.before[id][1].mtime > 5 * 60 * 1000
                  /\ fsop.at - fsop.before[id][1].mtime <= 5 * 60 * 1000 => dropbox[id] = fsop.before[id]

\* A sweep met one entry older than the TTL and one whose age was exactly the
\* TTL: it deleted the first and kept the second
C14_Witness ==
    /\ fsop.op = "sweep"
    /\ \E old, young \in SessionIds :
          /\ fsop.before[old] # None /\ fsop.at - fsop.before[old][1].mtime > maxAge
          /\ dropbox[old] = None
          /\ fsop.before[young] # None /\ fsop.at - fsop.before[young][1].mtime = maxAge
          /\ dropbox[young] = fsop.before[young]

C29_StaleEventuallyRemoved ==
    LET id == DirOrder[Len(DirOrder)]
    IN (dropbox[id] # None /\ now - dropbox[id][1].mtime > maxAge)
          ~> (dropbox[id] = None \/ now - dropbox[id][1].mtime <= maxAge)

----------------------------------------------------------------------------
(* Claims about the chat replies, checked under SpecChat *)

\* The message is meant as input: free text, or a session command with a prefix
\* and a text
MeantAsInput(msg) == msg.cmd = "" \/ IsSessionCommand(msg)

C19_ReplyNeverSilent ==
    (chat.channel # "none" /\ MeantAsInput(chat.msg)) =>
        \/ chat.sent # None /\ chat.reply \in {"sent", "failed"}
        \/ chat.sent = None /\ chat.reply \in {"not-found", "ambiguous", "no-session"}

----------------------------------------------------------------------------
(* Claims about the listener, checked under SpecListener *)

\* C20: when binding fails because the port is in use, start() persists port+1
\* as the configured port and retries binding on it, and it gives up after at
\* most 10 such attempts whatever port was configured when start() was first
\* called.
C20_AtMostTenAttempts ==
    /\ listener.state = "binding" => listener.port = listener.configured
    /\ listener.attempts <= PORT_ATTEMPTS

----------------------------------------------------------------------------
(* Claims about the delivery channel, checked under SpecSend *)

\* C15 as stated: when the handle file names a pid with no live process, send
\* makes no HTTP attempt, deletes the handle file, writes the text to the
\* drop-box entry and returns true.
C15_StaleHandleReturnsTrue ==
    (call.pc = "done" /\ call.handle = "stale") =>
        /\ ~call.viaHttp
        /\ portFile = None
        /\ dropbox[call.sessionId] # None /\ dropbox[call.sessionId][1].written = call.input
        /\ call.result

\* C15 amended: when the handle file names a pid with no live process, send
\* makes no HTTP attempt, deletes the handle file and takes the file transport:
\* it returns true with the text in the drop-box entry when the write succeeds,
\* and false when the write fails. A send that finds no handle file goes
\* straight to the file transport.
C15_StaleHandleFallsBack ==
    /\ (call.pc = "done" /\ call.handle = "stale") =>
          /\ ~call.viaHttp
          /\ \A id \in SessionIds : stdin[id] = <<>>
          /\ portFile = None
          /\ HandleState(portFile, wrapper) = "none"
          /\ call.file \in {"written", "failed"}
          /\ call.result = (call.file = "written")
          /\ call.file = "written" =>
                dropbox[call.sessionId] # None /\ dropbox[call.sessionId][1].written = call.input
    /\ (call.pc = "done" /\ call.handle = "none") =>
          /\ ~call.viaHttp
          /\ \A id \in SessionIds : stdin[id] = <<>>
          /\ call.file \in {"written", "failed"}
    /\ call.pc = "http" => call.handle = "live"

\* A send met the handle of a killed wrapper while another wrapper was running,
\* and wrote the drop-box entry
C15_Witness ==
    /\ call.pc = "done"
    /\ call.handle = "stale"
    /\ call.result
    /\ portFile = None
    /\ \E id \in SessionIds : wrapper[id].running
    /\ dropbox[call.sessionId] # None

\* C17: send never throws: every call ends with a boolean. It returns false only
\* when the network transport did not succeed and the drop-box write also
\* failed, and true in every other case.
C17_FalseOnlyOnTotalFailure ==
    /\ call.result \in BOOLEAN
    /\ call.pc \in {"idle", "http", "done"}
    /\ call.pc = "done" =>
          LET httpOk == call.viaHttp /\ call.file = "none"
          IN /\ call.result = ~(~httpOk /\ call.file = "failed")
             /\ httpOk => \E id \in SessionIds : \E i \in 1..Len(stdin[id]) : stdin[id][i].input = call.input
             /\ call.file = "written" =>
                   dropbox[call.sessionId] # None /\ dropbox[call.sessionId][1].written = call.input
             /\ call.file = "none" => httpOk

\* A send returned false after every HTTP attempt and the drop-box write failed
C17_Witness ==
    /\ call.pc = "done"
    /\ call.viaHttp
    /\ call.file = "failed"
    /\ ~call.result

\* C1: a text passed to send(sessionId, text) is delivered only to the session
\* identified by sessionId, whichever transport carries it: every text that
\* reached a session's stdin or drop-box file was sent to that session.
C1_DeliveredOnlyToAddressee ==
    /\ \A id \in SessionIds : \A i \in 1..Len(stdin[id]) : stdin[id][i].sentTo = id
    /\ (call.pc = "done" /\ call.result /\ ~call.viaHttp) =>
          dropbox[call.sessionId] # None /\ dropbox[call.sessionId][1].written = call.input

RECURSIVE StdinWrites(_, _)
\* The number of lines the wrappers wrote to a stdin for the call in progress
StdinWrites(in, ids) ==
    IF ids = {} THEN 0
    ELSE LET id == CHOOSE x \in ids : TRUE
         IN Len(in[id]) + StdinWrites(in, ids \ {id})

\* C34: for one send(sessionId, text) call the text reaches a consumer at most
\* once across both transports: if the wrapper accepted an HTTP attempt whose
\* response was lost or timed out, no later retry and no drop-box write in the
\* same call delivers the same text a second time.
C34_DeliveredAtMostOnce ==
    call.pc # "idle" =>
        StdinWrites(stdin, SessionIds) + (IF call.file = "written" THEN 1 ELSE 0) <= 1

\* C21: within one send call the network transport makes at most 4 HTTP
\* attempts, preceded by delays of 0, 1000, 2000 and 4000 ms respectively;
\* after each failed attempt it probes the wrapper's liveness again, and once a
\* probe finds the wrapper gone it makes no further HTTP attempt in that call.
C21_AtMostFourAttempts ==
    /\ Len(tries) <= 4
    /\ \A k \in 1..Len(tries) :
          /\ tries[k].delay = (IF k = 1 THEN 0 ELSE 1000 * 2^(k - 2))
          /\ tries[k].success => (k = Len(tries) /\ tries[k].probe = "none")
          /\ ~tries[k].success => tries[k].probe \in {"live", "gone"}
          /\ tries[k].probe = "gone" => k = Len(tries)
    /\ call.pc = "http" =>
          /\ Len(tries) = call.attempt
          /\ Len(tries) < 4
          /\ \A k \in 1..Len(tries) : tries[k].probe = "live"
    /\ (call.pc = "done" /\ ~call.viaHttp) => tries = <<>>

\* A send gave up after its second attempt, made 1000 ms after the first,
\* because the probe found the wrapper gone
C21_Witness ==
    /\ call.pc = "done"
    /\ Len(tries) = 2
    /\ tries[2].delay = 1000
    /\ ~tries[2].success
    /\ tries[2].probe = "gone"

\* C22: the two transports are tried in order: send writes the session's
\* drop-box entry only if no live wrapper handle was found or every HTTP attempt
\* of that call failed; when an HTTP attempt returns success, send returns true
\* and writes no drop-box entry.
C22_FileOnlyAfterHttp ==
    [][(call' # call /\ call'.pc = "done") =>
          /\ call'.file \in {"written", "failed"} =>
                \/ call'.handle \in {"none", "stale"} /\ ~call'.viaHttp /\ tries' = <<>>
                \/ /\ call'.handle = "live" /\ call'.viaHttp /\ tries' # <<>>
                   /\ \A k \in 1..Len(tries') : ~tries'[k].success
          /\ (tries' # <<>> /\ tries'[Len(tries')].success) =>
                call'.result /\ call'.file = "none" /\ dropbox' = dropbox
          /\ call'.file = "none" => dropbox' = dropbox
          /\ call'.file = "written" =>
                dropbox'[call'.sessionId] # None /\ dropbox'[call'.sessionId][1].written = call'.input
    ]_vars

\* A send wrote the drop-box entry after HTTP attempts that all failed
C22_Witness ==
    /\ call.pc = "done"
    /\ call.viaHttp
    /\ call.file = "written"
    /\ Len(tries) >= 2
    /\ dropbox[call.sessionId] # None

----------------------------------------------------------------------------
(* Claims about the working directory, checked under SpecBackfill *)

\* C32: process(SessionStart) for an id that already has a session overwrites
\* it in place: afterwards exactly one session with that id exists, with status
\* active, workingDirectory from the payload or "Unknown", and no currentTool,
\* question, options or lastNotification carried over from the previous
\* incarnation; the number of sessions in the registry is unchanged.
C32_RestartOverwritesInPlace ==
    (Processed("SessionStart") /\ last.before # None) =>
        LET after == getSession(sessions, last.id)
        IN /\ after # None
           /\ last.ret = after
           /\ Cardinality({ i \in 1..Len(sessions) : sessions[i].id = last.id }) = 1
           /\ after[1].status = "active"
           /\ after[1].workingDirectory = Or(last.data.working_directory, "Unknown")
           /\ after[1].currentTool = undefined
           /\ after[1].question = undefined
           /\ after[1].options = None
           /\ after[1].lastNotification = undefined
           /\ Len(sessions) = Len(last.idsBefore)
           /\ Ids(sessions) = last.idsBefore

\* A SessionStart with no directory arrived for a session that was waiting
\* with a question and options, beside another session
C32_Witness ==
    /\ Processed("SessionStart")
    /\ last.before # None
    /\ last.before[1].status = "waiting"
    /\ last.before[1].question = "Proceed?"
    /\ last.before[1].options # None
    /\ last.data.working_directory = undefined
    /\ Len(sessions) = 2
    /\ getSession(sessions, last.id)[1].status = "active"

\* C39: in every registry state reachable through webhook events (ensure and
\* process only), a session whose status is active has question, options and
\* lastNotification all unset.
C39_ActiveHasNoPrompt ==
    \A i \in 1..Len(sessions) :
        sessions[i].status = "active" =>
            /\ sessions[i].question = undefined
            /\ sessions[i].options = None
            /\ sessions[i].lastNotification = undefined

\* A session that waited with a question and options is active again after
\* the end of a tool
C39_Witness ==
    /\ Processed("PostToolUse")
    /\ last.before # None
    /\ last.before[1].status = "waiting"
    /\ last.before[1].question = "Proceed?"
    /\ last.before[1].options # None
    /\ last.before[1].lastNotification # undefined
    /\ getSession(sessions, last.id)[1].status = "active"

\* C23: for every event type other than SessionStart, process leaves an
\* existing session's workingDirectory unchanged when it is already known (not
\* "Unknown"), and sets it from the payload when it is still "Unknown" and the
\* payload carries a working directory.
C23_BackfillOnlyUnknown ==
    (last.op = "process" /\ last.type # "SessionStart" /\ last.before # None) =>
        LET before == last.before[1]
            after == getSession(sessions, last.id)
        IN /\ after # None
           /\ before.workingDirectory # "Unknown" =>
                 after[1].workingDirectory = before.workingDirectory
           /\ (before.workingDirectory = "Unknown" /\ Truthy(last.data.working_directory)) =>
                 after[1].workingDirectory = last.data.working_directory
           /\ (before.workingDirectory = "Unknown" /\ ~Truthy(last.data.working_directory)) =>
                 after[1].workingDirectory = "Unknown"

\* An event carrying another directory reached a session whose directory was
\* known, and the session kept its own
C23_Witness ==
    /\ last.op = "process"
    /\ last.type = "Notification"
    /\ last.before # None
    /\ last.before[1].workingDirectory = "/tmp/proj"
    /\ last.data.working_directory = "/tmp/other"
    /\ getSession(sessions, last.id)[1].workingDirectory = "/tmp/proj"

\* C24: process(event) for a sessionId that is not in the registry, with any
\* type other than SessionStart, does not throw, returns none and does not
\* create a session; only SessionStart creates a session from process.
C24_MissingSessionNoOp ==
    [][(last'.op = "process" /\ ~last'.ensured /\ ~MapHas(sessions, last'.id)) =>
          IF last'.type = "SessionStart"
          THEN /\ sessions' = Append(sessions, getSession(sessions', last'.id)[1])
               /\ last'.ret = getSession(sessions', last'.id)
          ELSE /\ sessions' = sessions
               /\ last'.ret = None
    ]_vars

\* process was called with a Notification for an id the registry did not hold,
\* while it held another session
C24_Witness ==
    /\ last.op = "process"
    /\ ~last.ensured
    /\ last.type = "Notification"
    /\ last.before = None
    /\ last.ret = None
    /\ ~MapHas(sessions, last.id)
    /\ sessions # <<>>

\* C26: after the ingestion server has handled any accepted event for session
\* id s (ensure(s), then process(event)), a session with id s exists in the
\* registry; if s was unknown before and the event carried no working
\* directory, that session has workingDirectory "Unknown".
C26_SessionExistsAfterEvent ==
    (last.op = "process" /\ last.http.status = 200) =>
        LET after == getSession(sessions, last.id)
        IN /\ after # None
           /\ after[1].id = last.id
           /\ last.ret = after
           /\ last.ensured = (last.before = None)
           /\ (last.before = None /\ ~Truthy(last.data.working_directory)) =>
                 after[1].workingDirectory = "Unknown"

\* A Stop with no working directory arrived for an id the registry did not
\* hold, and the session was created on the way
C26_Witness ==
    /\ last.op = "process"
    /\ last.http.status = 200
    /\ last.type = "Stop"
    /\ last.ensured
    /\ last.data.working_directory = undefined
    /\ getSession(sessions, last.id) # None
    /\ getSession(sessions, last.id)[1].workingDirectory = "Unknown"

----------------------------------------------------------------------------
(* Claims about the requests in flight, checked under SpecHooks *)

IsPrefix(p, q) == Len(p) <= Len(q) /\ SubSeq(q, 1, Len(p)) = p

\* C27: for each accepted webhook event, ensure(sessionId) and process(event)
\* take effect as one atomic step with respect to other requests: no other
\* event's registry mutation interleaves between them, and two events for the
\* same session take effect in the order in which their request bodies were
\* completely received, even while an earlier event's notification fan-out is
\* still pending.
C27_AtomicInReceiptOrder ==
    [][/\ (sessions' # sessions \/ hooks'.applied # hooks.applied) =>
             /\ hooks.micro # <<>>
             /\ hooks'.applied = Append(hooks.applied, hooks.micro[1])
             /\ LET event == hooks.reqs[hooks.micro[1]].event
                IN sessions' = processHookEvent(ensureSession(sessions, event.sessionId, now), event, now).reg
       /\ hooks.micro # <<>> => hooks'.applied = Append(hooks.applied, hooks.micro[1])
       /\ IsPrefix(hooks'.applied, hooks'.received)
       /\ Len(hooks'.received) - Len(hooks'.applied) = Len(hooks'.micro)
    ]_vars

\* Two events for one session took effect in the order their bodies were
\* complete, which was not the order the requests arrived in, while the fan-out
\* of the first was still pending
C27_Witness ==
    /\ hooks.applied = << 2, 1 >>
    /\ hooks.received = << 2, 1 >>
    /\ hooks.reqs[1].event.sessionId = hooks.reqs[2].event.sessionId
    /\ hooks.reqs[2].pc = "fanout"
    /\ hooks.reqs[2].event.type = "Notification"
    /\ hooks.reqs[1].event.type = "PreToolUse"
    /\ getSession(sessions, hooks.reqs[1].event.sessionId)[1].status = "active"

\* C30: for every accepted event the UI-update collaborator is notified after
\* the registry has been updated with that event, and the notification fan-out
\* is triggered only for SessionEnd, Notification and Stop events, never for
\* SessionStart, PreToolUse or PostToolUse.
C30_NotifyAfterUpdate ==
    /\ hooks.applied # <<>> =>
          /\ hooks.ui # None
          /\ hooks.ui[1].snapshot = getSessions(sessions)
          /\ getSession(hooks.ui[1].snapshot, last.id) = last.ret
    /\ hooks.applied = <<>> => hooks.ui = None
    /\ \A i \in 1..Len(hooks.reqs) :
          LET req == hooks.reqs[i]
          IN /\ req.fanout \in {"desktop", "remote"} =>
                   req.event.type \in {"SessionEnd", "Notification", "Stop"}
             /\ req.pc = "fanout" => req.fanout = "remote"
             /\ req.event.type \in {"SessionStart", "PreToolUse", "PostToolUse"} =>
                   req.fanout \in {"none", "off"} /\ req.pc # "fanout"

\* A Stop was applied: the snapshot sent to the window shows the session
\* stopped, and the fan-out of the Stop is pending
C30_Witness ==
    /\ hooks.applied # <<>>
    /\ last.type = "Stop"
    /\ hooks.reqs[hooks.applied[Len(hooks.applied)]].pc = "fanout"
    /\ hooks.ui[1].sent
    /\ getSession(hooks.ui[1].snapshot, last.id)[1].status = "stopped"

----------------------------------------------------------------------------
(* Claims about the answers, checked under SpecAnswer *)

\* handleHookEvent ran for request i
Applied(i) == \E k \in 1..Len(hooks.applied) : hooks.applied[k] = i

\* A status is written when the request is answered, and is one of the four
StatusWritten(q) ==
    /\ q.pc = "answered" => q.status \in {200, 400, 405, 500}
    /\ q.pc # "answered" => q.status = 0

\* Once answered a request is not answered again
AnsweredOnce ==
    \A i \in 1..Len(hooks.reqs) : hooks.reqs[i].pc = "answered" => hooks'.reqs[i] = hooks.reqs[i]

\* Every request that came in is answered: again and again no request is
\* left without its answer
EveryRequestAnswered ==
    []<>(\A i \in 1..Len(hooks.reqs) : hooks.reqs[i].pc = "answered")

----------------------------------------------------------------------------
(* Claims about the listener while it serves, checked under SpecUp *)

\* C31: a request whose handling raises an exception (invalid JSON body or a
\* failure inside event handling) is answered with status 500 and the listener
\* stays up: every later well-formed request is still accepted and applied.
C31_ExceptionAnswered500 ==
    [][nEvents' # nEvents =>
          /\ listener' = listener
          /\ listener'.state = "listening"
          /\ (last'.http.method = "POST" /\ last'.http.body = "invalid") =>
                last'.http.status = 500 /\ sessions' = sessions
          /\ (last'.http.method = "POST" /\ last'.http.body = "null" /\ last'.type \in HookTypes) =>
                last'.http.status = 500 /\ sessions' = sessions
          /\ (last'.op = "process" /\ ~IsString(last'.id)) => last'.http.status = 500
          /\ ( /\ last'.http.method = "POST"
               /\ last'.http.body = "object"
               /\ last'.type \in HookTypes
               /\ IsString(last'.id) ) =>
                /\ last'.http.status = 200
                /\ last'.op = "process"
                /\ sessions' = handleHookEvent(sessions,
                                   [type |-> last'.type, sessionId |-> last'.id, data |-> last'.data], now).reg
                /\ getSession(sessions', last'.id) # None
    ]_vars

\* A well-formed request was accepted and applied after a request had failed
\* inside event handling and been answered 500
C31_Witness ==
    /\ listener.state = "listening"
    /\ last.op = "process"
    /\ last.http.status = 200
    /\ last.type = "Notification"
    /\ MapHas(sessions, NumericId)
    /\ getSession(sessions, last.id)[1].status = "waiting"

====
